---- MODULE Spec2Model ----
(***************************************************************************)
(* A model of the LiteFS Store (src/store.go): the lease monitor of        *)
(* several nodes sharing one Leaser, the replica-side ingest of LTX        *)
(* stream frames, the subscriber fan-out and the primary context.          *)
(*                                                                         *)
(* The specifications share the variables; each leaves the variables of the *)
(* other parts unchanged:                                                  *)
(*   Spec          the lease monitors of the nodes                         *)
(*   CtxSpec       the lease monitors and one PrimaryCtx                   *)
(*   CloseSpec     Store.Close against the three loops of a store (fair)   *)
(*   FailoverSpec  two candidates and the revocation of a lease (fair)     *)
(*   IngestSpec    one replica consuming stream frames                     *)
(*   LockSpec      the frame handler step by step against CreateDB/DropDB  *)
(*   SubSpec       Store.MarkDirty callers against the subscribers         *)
(*   DBSpec        CreateDB, CreateDBIfNotExists, DropDB and subscribers   *)
(*   RetentionSpec one call of Store.EnforceRetention                      *)
(*   MutexSpec     the operations that take Store.mu, statement by statement *)
(*   RenewSpec     one primary term and its lease renewals under a clock   *)
(*   InstallSpec   the LTX file of a frame: temp file, rename, removal     *)
(*   DropSpec      DropDB frames and frames of an unknown type             *)
(*   TermSpec      setIsPrimary with any value and one PrimaryCtx;         *)
(*                 TermFairSpec schedules the goroutine of the context     *)
(*   WakeSpec      a consumer per subscriber against Store.MarkDirty;      *)
(*                 WakeFairSpec schedules consumers and callers            *)
(*   RunSpec       RunCommand.Run of "litefs run" in two processes         *)
(*                 (src/.github/workflows/release.yml)                     *)
(***************************************************************************)
EXTENDS Integers, Sequences, FiniteSets, TLC

\* ---------------------------------------------------------------- bounds
\* Primary terms a node may enter (each term makes one primaryCh).
MaxTerms == 2

\* The highest TXID an LTX file of the stream carries.
MaxTXID == 2
\* Stream frames (LTX and DropDB) one replica processes in a run.
MaxFrames == 3
\* Concurrent callers of Store.MarkDirty, one call each.
MaxCallers == 2
\* Calls of DirtySet by the reader of one subscriber.
MaxReads == 2

Nodes == {1, 2}
\* The replica of IngestSpec is node 1: Store.ID().
SelfID == 1
\* Database names, and the checksum values LTX headers carry.
DBNames == {"a", "b"}
Checksums == {"c1", "c2"}
\* The zero checksum of an empty database and of a snapshot's PreApplyChecksum.
NoChecksum == "c0"
\* Pos{}: the position of an empty database.
Pos0 == [TXID |-> 0, PostApplyChecksum |-> NoChecksum]
\* The LTX files a database directory can hold, named MinTXID-MaxTXID.
Ranges == {r \in (1..MaxTXID) \X (1..MaxTXID) : r[1] <= r[2]}
\* LTX headers. A snapshot is the file that starts at TXID 1; its
\* PreApplyChecksum is zero, and no other file's is.
Headers ==
    {h \in [MinTXID : 1..MaxTXID, MaxTXID : 1..MaxTXID,
            PreApplyChecksum : Checksums \cup {NoChecksum},
            PostApplyChecksum : Checksums, NodeID : Nodes, IsSnapshot : BOOLEAN] :
        /\ h.MinTXID <= h.MaxTXID
        /\ h.IsSnapshot <=> (h.MinTXID = 1)
        /\ h.IsSnapshot <=> (h.PreApplyChecksum = NoChecksum)}
\* The chunked body of an LTX frame as the stream reader meets it: the LTX
\* header, the pages with the trailer, and the zero-length chunk ending the body.
LTXBody == <<"header", "pages", "end">>
\* Where processLTXStreamFrame can fail.
Faults ==
    {"none", "createdb", "decode", "lock", "verify", "discard", "unset", "create",
     "copy", "fsync", "rename", "syncdir", "readdir", "remove", "apply"}
\* No frame has been processed yet.
NoHdr ==
    [MinTXID |-> 0, MaxTXID |-> 0, PreApplyChecksum |-> NoChecksum,
     PostApplyChecksum |-> NoChecksum, NodeID |-> 0, IsSnapshot |-> FALSE]
NoLast ==
    [op |-> "none", name |-> "a", err |-> "nil", own |-> FALSE, snapshot |-> FALSE,
     fits |-> FALSE, clean |-> TRUE, before |-> Pos0, halted |-> FALSE,
     applied |-> NoHdr]
\* Subscribers (the Subscriber objects a Store can hand out) and callers.
Subs == {1, 2}
NoSub == 0
Callers == 1..MaxCallers
NoCaller == 0
\* make(chan struct{}, 1): the capacity of Subscriber.notifyCh.
NotifyCap == 1
\* "no node": the Leaser has no primary / primaryInfo is nil.
NoNode == 0
\* processLTXStreamFrame is not running.
NoFrame == [name |-> "a", hdr |-> NoHdr, stale |-> FALSE]
\* Nothing has been changed on disk yet.
\* processLTXStreamFrame is not running.
NoInstall == [pc |-> "idle", name |-> "a", hdr |-> NoHdr, tmp |-> "none", part |-> {},
              err |-> "none"]
\* The clock of RenewSpec stops here, in seconds.
MaxClock == 12
\* The longest a call of lease.Renew takes, in seconds.
MaxRenewDur == 1
\* "const timeout = 1 * time.Second" of monitorLeaseAsPrimary.
RenewTimeout == 1
\* Values of lease.TTL(), in seconds.
LeaseTTLs == {2, 4, 6}
DefaultTTL == 4
\* A lease of the given TTL acquired at time 0, before monitorLeaseAsPrimary runs.
RnIdle(ttl) ==
    [now |-> 0, renewedAt |-> 0, ttl |-> ttl, waitDur |-> 0, pc |-> "enter",
     isPrimary |-> FALSE, err |-> "none", lastErr |-> "none", at |-> 0, dur |-> 0,
     lag |-> 0, stopped |-> FALSE]
\* The consumer of a subscriber: it waits on NotifyCh(); DirtySet() has returned
\* nothing yet.
NoConsumer == [pc |-> "wait", ret |-> {}]
\* The processes that run "litefs run" on one database.
Procs == {1, 2}
\* A process that has not called RunCommand.Run. lock: WithHaltLockOn is set;
\* f: the lock file; held: the process holds the HALT lock; cmd: the subcommand;
\* acquired and unhalt are ghosts: litefsgo.Halt succeeded, the result of Unhalt.
NoRun == [pc |-> "idle", lock |-> FALSE, f |-> "nil", held |-> FALSE, cmd |-> "none",
          acquired |-> FALSE, unhalt |-> "none", err |-> "none"]
\* A caller that is in no operation of the Store.
NoThread == [op |-> "none", name |-> "a", steps |-> <<>>, last |-> "none", held |-> FALSE]
\* DefaultRetention, in units of the model's retention values.
DefaultRetention == 1
\* Values of Store.Retention: negative, zero (not set), positive.
Retentions == {-1, 0, 1, 2}

\* The mark a close of a closed channel leaves among the closed channels.
DoubleClose == -1

NoMut == [op |-> "none", name |-> "a", locked |-> TRUE]

\* No PrimaryCtx has been made yet.
NoCtx ==
    [made |-> FALSE, node |-> 1, ch |-> 0, parentDone |-> FALSE, done |-> FALSE,
     wasPrimary |-> FALSE, lost |-> FALSE, parentFirst |-> FALSE]

VARIABLES
    \* ---- lease monitor, per node
    candidate,    \* Store.candidate
    pc,           \* position of the monitorLease goroutine
    isPrimary,    \* Store.isPrimary
    primaryInfo,  \* Store.primaryInfo (NoNode = nil, else the primary's node)
    streamTerm,   \* the primary's primaryCh under which the replica's stream was opened
    primaryCh,    \* Store.primaryCh: the id of the current channel
    closedChs,    \* the primary channels of the node that are closed
    readyCh,      \* TRUE once Store.readyCh is closed
    demoteSig,    \* TRUE once the demoteCh captured by the primary monitor is closed
    demoted,      \* monitorLeaseAsPrimary's local "demoted"
    info,         \* the *PrimaryInfo returned by acquireLeaseOrPrimaryInfo
    ctxDone,      \* TRUE once the root context is cancelled (Store.Close)
    \* ---- the Leaser shared by the nodes
    holder,       \* the node whose lease the Leaser holds live, or NoNode
    revoked,      \* ghost: the node's latest lease was taken away by the Leaser
    \* ---- one context made by Store.PrimaryCtx
    pctx,
    \* ---- the replica consuming a stream (IngestSpec)
    dbs,          \* Store.dbs: the names of the databases
    pos,          \* DB.Pos() of each database (Pos0 if there is none)
    files,        \* the LTX files in each database's LTX directory (their ranges)
    tmps,         \* the temp files left in each database's LTX directory
    halt,         \* TRUE while the database's remote HALT lock is held
    session,      \* "open" while monitorLeaseAsReplica reads the stream
    body,         \* what is unread of the LTX body at the head of the stream
    nFrames,      \* frames processed so far
    last,         \* ghost: the frame processed last and how it ended
    chain,        \* ghost: positions a valid chain of files fed so far must produce
    posLog,       \* ghost: the database's position after each of those files
    chainValid,   \* ghost: every file fed for the database so far continued the chain
    \* ---- subscribers of one Store and the callers of Store.MarkDirty
    mu,           \* Store.mu: NoCaller when free, else the caller holding it
    subscribers,  \* Store.subscribers
    subMu,        \* Subscriber.mu, per subscriber: NoCaller or the caller holding it
    notifyCh,     \* Subscriber.notifyCh: the number of values buffered
    dirtySet,     \* Subscriber.dirtySet
    cpc,          \* per caller: its position in Store.MarkDirty
    cname,        \* per caller: the name it marks
    todo,         \* per caller: the subscribers its range loop has not visited yet
    cur,          \* per caller: the subscriber whose MarkDirty it is in
    got,          \* ghost: per subscriber, the results of its reader's DirtySet calls
    names,        \* ghost: per subscriber, the names of the calls that reached it
    phase,        \* ghost: "calls" until the reader acts, "reads" if it first acted
                  \* after every call had returned and none started since, else "mixed"
    \* ---- per node: the other background loops, and ghosts of the lease monitor
    haltMon,      \* position of the monitorHaltLock goroutine: "run" or "done"
    retMon,       \* position of the monitorRetention goroutine: "run" or "done"
    readyCloses,  \* ghost: how many times close(s.readyCh) was executed
    owed,         \* ghost: Demote was called in primary mode and DemoteDelay has
                  \* not been waited for since
    exitLog,      \* ghost: what the monitor did since it left primary or replica mode
    closeFailed,  \* ghost: the node's last lease.Close returned an error
    \* ---- the write locks of the replica's databases (LockSpec)
    wlock,        \* per name: the write lock of the database in Store.dbs is held
    fpc,          \* position of processLTXStreamFrame: "idle" when not running
    fcur,         \* the frame being processed, and whether its DB was dropped since
    mut,          \* ghost: the last change of a database's files on disk
    \* ---- one call of Store.EnforceRetention (RetentionSpec)
    er,           \* its configuration, its position, its local err and its result
    \* ---- the threads that take Store.mu (MutexSpec)
    th,           \* per caller: the operation it is in, the steps it has left, and
                  \* ghost: the step it executed last and whether it held Store.mu
    \* ---- one primary term under a clock (RenewSpec)
    rn,           \* the clock, lease.RenewedAt(), lease.TTL(), waitDur, the position
                  \* of monitorLeaseAsPrimary, isPrimary, and ghosts of the last Renew
    \* ---- the LTX file of the frame being processed (InstallSpec)
    lf,           \* the position of processLTXStreamFrame, the frame, what the temp
                  \* file holds, the canonical paths holding an incomplete file
    \* ---- the consumers of the subscribers (WakeSpec)
    cons,         \* per subscriber: whether its consumer waits on NotifyCh() or has
                  \* received and not yet called DirtySet(), and what DirtySet() returned
    \* ---- the processes of "litefs run" (RunSpec)
    rc            \* per process: the position of RunCommand.Run, its lock file, whether
                  \* it holds the HALT lock, the subcommand, and the result of Run

leaseVars == <<candidate, pc, isPrimary, primaryInfo, streamTerm, primaryCh, closedChs,
               readyCh, demoteSig, demoted, info, ctxDone, holder, revoked, pctx>>

ingestVars == <<dbs, pos, files, tmps, halt, session, body, nFrames, last,
                chain, posLog, chainValid>>

subVars == <<mu, subscribers, subMu, notifyCh, dirtySet, cpc, cname, todo, cur, got,
             names, phase>>

monVars == <<haltMon, retMon, readyCloses, owed, exitLog, closeFailed>>

lockVars == <<wlock, fpc, fcur, mut>>

restVars == <<er, th, rn, lf, cons, rc>>

vars == <<leaseVars, ingestVars, subVars, monVars, lockVars, restVars>>

\* ------------------------------------------------------------ the Leaser
\* Leaser.PrimaryInfo: the current primary, ErrNoPrimary, or an RPC error.
LeaserPrimaryInfo ==
    {[err |-> "rpc", node |-> NoNode]} \cup
    (IF holder = NoNode
        THEN {[err |-> "ErrNoPrimary", node |-> NoNode]}
        ELSE {[err |-> "nil", node |-> holder]})

\* Leaser.Acquire: a lease if there is no primary, else ErrPrimaryExists; or an RPC error.
LeaserAcquire ==
    {"rpc"} \cup (IF holder = NoNode THEN {"lease"} ELSE {"ErrPrimaryExists"})

\* Lease.Renew of node n's lease: ErrLeaseExpired once the lease is gone.
LeaseRenew(n) ==
    {"rpc"} \cup (IF holder = n THEN {"nil"} ELSE {"ErrLeaseExpired"})

\* Lease.Close of node n's lease: destroys it if it is still the live one.
LeaseClose(n) ==
    IF holder = n THEN {NoNode, n} ELSE {holder}

\* ------------------------------------------------------------ the Store
\* close(ch) on the set of closed channels: closing a closed channel panics,
\* which the set records with the DoubleClose mark.
CloseCh(closed, ch) ==
    IF ch \in closed THEN closed \cup {DoubleClose} ELSE closed \cup {ch}

\* Mutant: the flag is not compared with v, every call acts as a transition.
SetIsPrimaryUnguarded(n, v) ==
    /\ IF v
          THEN /\ primaryCh' = [primaryCh EXCEPT ![n] = @ + 1]
               /\ closedChs' = closedChs
          ELSE /\ closedChs' = [closedChs EXCEPT ![n] = CloseCh(@, primaryCh[n])]
               /\ primaryCh' = primaryCh
    /\ isPrimary' = [isPrimary EXCEPT ![n] = v]

\* Store.setIsPrimary(v), called with the mutex held.
SetIsPrimary(n, v) ==
    /\ IF isPrimary[n] # v
          THEN IF v
                  THEN /\ primaryCh' = [primaryCh EXCEPT ![n] = @ + 1]
                       /\ closedChs' = closedChs
                  ELSE /\ closedChs' = [closedChs EXCEPT ![n] = CloseCh(@, primaryCh[n])]
                       /\ primaryCh' = primaryCh
          ELSE UNCHANGED <<primaryCh, closedChs>>
    /\ isPrimary' = [isPrimary EXCEPT ![n] = v]

\* Mutant: the channel is closed without looking whether it is closed already.
MarkReadyUnchecked(n) ==
    /\ readyCh' = [readyCh EXCEPT ![n] = TRUE]
    /\ readyCloses' = [readyCloses EXCEPT ![n] = @ + 1]

\* Store.markReady: close(s.readyCh) unless it is closed already.
MarkReady(n) ==
    IF readyCh[n]
       THEN UNCHANGED <<readyCh, readyCloses>>
       ELSE /\ readyCh' = [readyCh EXCEPT ![n] = TRUE]
            /\ readyCloses' = [readyCloses EXCEPT ![n] = @ + 1]

Goto(n, l) == pc' = [pc EXCEPT ![n] = l]

\* NewStore: no subscribers; no caller has started.
SubInit ==
    /\ mu = NoCaller
    /\ subscribers = {}
    /\ subMu = [s \in Subs |-> NoCaller]
    /\ notifyCh = [s \in Subs |-> 0]
    /\ dirtySet = [s \in Subs |-> {}]
    /\ cpc = [c \in Callers |-> "idle"]
    /\ cname = [c \in Callers |-> "a"]
    /\ todo = [c \in Callers |-> {}]
    /\ cur = [c \in Callers |-> NoSub]
    /\ got = [s \in Subs |-> <<>>]
    /\ names = [s \in Subs |-> {}]
    /\ phase = [s \in Subs |-> "calls"]

\* Open: the HALT-lock and retention monitors are started with the lease monitor.
MonInit ==
    /\ haltMon = [n \in Nodes |-> "run"]
    /\ retMon = [n \in Nodes |-> "run"]
    /\ readyCloses = [n \in Nodes |-> 0]
    /\ owed = [n \in Nodes |-> FALSE]
    /\ exitLog = [n \in Nodes |-> <<>>]
    /\ closeFailed = [n \in Nodes |-> FALSE]

\* No write lock is held and no frame is being processed.
LockInit ==
    /\ wlock = [d \in DBNames |-> FALSE]
    /\ fpc = "idle"
    /\ fcur = NoFrame
    /\ mut = NoMut

\* A replica whose data directory holds no database yet.
IngestInit ==
    /\ dbs = {}
    /\ pos = [d \in DBNames |-> Pos0]
    /\ files = [d \in DBNames |-> {}]
    /\ tmps = [d \in DBNames |-> {}]
    /\ halt = [d \in DBNames |-> FALSE]
    /\ session = "closed"
    /\ body = <<>>
    /\ nFrames = 0
    /\ last = NoLast
    /\ chain = [d \in DBNames |-> <<>>]
    /\ posLog = [d \in DBNames |-> <<>>]
    /\ chainValid = [d \in DBNames |-> TRUE]

\* No call of Store.EnforceRetention has been made: the store holds the
\* retention r.
ErIdle(r) ==
    [retention |-> r, pc |-> "idle", all |-> {}, todo |-> <<>>, called |-> <<>>,
     failed |-> {}, err |-> "nil", ret |-> "none"]

\* NewStore: Retention is DefaultRetention.
RestInit ==
    /\ er = ErIdle(DefaultRetention)
    /\ th = [c \in Callers |-> NoThread]
    /\ rn = RnIdle(DefaultTTL)
    /\ lf = NoInstall
    /\ cons = [s \in Subs |-> NoConsumer]
    /\ rc = [p \in Procs |-> NoRun]

\* The stores after NewStore and Open, but for the state of restVars.
StoreInit ==
    /\ candidate \in [Nodes -> BOOLEAN]
    /\ pc = [n \in Nodes |-> "loop"]
    /\ isPrimary = [n \in Nodes |-> FALSE]
    /\ primaryInfo = [n \in Nodes |-> NoNode]
    /\ streamTerm = [n \in Nodes |-> 0]
    /\ primaryCh = [n \in Nodes |-> 0]
    /\ closedChs = [n \in Nodes |-> {0}]
    /\ readyCh = [n \in Nodes |-> FALSE]
    /\ demoteSig = [n \in Nodes |-> FALSE]
    /\ demoted = [n \in Nodes |-> FALSE]
    /\ info = [n \in Nodes |-> NoNode]
    /\ ctxDone = [n \in Nodes |-> FALSE]
    /\ holder = NoNode
    /\ revoked = [n \in Nodes |-> FALSE]
    /\ pctx = NoCtx
    /\ IngestInit
    /\ SubInit
    /\ MonInit
    /\ LockInit

Init == StoreInit /\ RestInit

\* ---- ghost bookkeeping of the PrimaryCtx under observation: "lost" records that
\* the node's primary status was lost after the context was made.
TrackCtx ==
    pctx' = IF pctx.made /\ ~isPrimary'[pctx.node]
               THEN [pctx EXCEPT !.lost = TRUE]
               ELSE pctx

\* The positions of the lease monitor at and after Leaser.Acquire succeeded.
PrimaryPcs == {"pEnter", "pReady", "pWait", "pUnset", "pClose", "pDemoteSleep", "pRecover"}

\* ------------------------------------------------- Store.monitorLease
\* Mutant: the loop does not look at ctx.Err().
LoopTopNoExit(n) ==
    /\ pc[n] = "loop"
    /\ Goto(n, "primaryInfo")
    /\ exitLog' = [exitLog EXCEPT ![n] = <<>>]
    /\ UNCHANGED <<ingestVars, subVars, haltMon, lockVars, restVars, retMon, readyCloses, owed, closeFailed, revoked, candidate, isPrimary, primaryInfo, streamTerm, primaryCh, closedChs, readyCh,
                   demoteSig, demoted, info, ctxDone, holder, pctx>>

\* The top of the loop: exit if the store is closed.
LoopTop(n) ==
    /\ pc[n] = "loop"
    /\ Goto(n, IF ctxDone[n] THEN "done" ELSE "primaryInfo")
    /\ exitLog' = [exitLog EXCEPT ![n] = <<>>]
    /\ UNCHANGED <<ingestVars, subVars, haltMon, lockVars, restVars, retMon, readyCloses, owed, closeFailed, revoked, candidate, isPrimary, primaryInfo, streamTerm, primaryCh, closedChs, readyCh,
                   demoteSig, demoted, info, ctxDone, holder, pctx>>

\* Mutant: a node that is not a candidate goes on to Leaser.Acquire too.
AcquirePrimaryInfoAnyNode(n) ==
    /\ pc[n] = "primaryInfo"
    /\ \E r \in LeaserPrimaryInfo :
          /\ info' = [info EXCEPT ![n] = r.node]
          /\ Goto(n, CASE r.err = "nil" -> "rEnter"
                       [] r.err = "ErrNoPrimary" -> "acquire"
                       [] OTHER -> "sleep")
    /\ owed' = [owed EXCEPT ![n] = FALSE]
    /\ UNCHANGED <<ingestVars, subVars, haltMon, lockVars, restVars, retMon, readyCloses, exitLog, closeFailed, revoked, candidate, isPrimary, primaryInfo, streamTerm, primaryCh, closedChs, readyCh,
                   demoteSig, demoted, ctxDone, holder, pctx>>

\* acquireLeaseOrPrimaryInfo: the first Leaser.PrimaryInfo call.
AcquirePrimaryInfo(n) ==
    /\ pc[n] = "primaryInfo"
    /\ \E r \in LeaserPrimaryInfo :
          /\ info' = [info EXCEPT ![n] = r.node]
          /\ Goto(n, CASE r.err = "nil" -> "rEnter"
                       [] r.err = "ErrNoPrimary" /\ candidate[n] -> "acquire"
                       [] OTHER -> "sleep")
    /\ owed' = [owed EXCEPT ![n] = FALSE]
    /\ UNCHANGED <<ingestVars, subVars, haltMon, lockVars, restVars, retMon, readyCloses, exitLog, closeFailed, revoked, candidate, isPrimary, primaryInfo, streamTerm, primaryCh, closedChs, readyCh,
                   demoteSig, demoted, ctxDone, holder, pctx>>

\* acquireLeaseOrPrimaryInfo: Leaser.Acquire, reached only by a candidate.
AcquireLease(n) ==
    /\ pc[n] = "acquire"
    /\ \E r \in LeaserAcquire :
          \/ /\ r = "lease"
             /\ primaryCh[n] < MaxTerms
             /\ holder' = n
             /\ revoked' = [revoked EXCEPT ![n] = FALSE]
             /\ Goto(n, "pEnter")
          \/ /\ r = "ErrPrimaryExists"
             /\ UNCHANGED <<holder, revoked>>
             /\ Goto(n, "primaryInfo2")
          \/ /\ r = "rpc"
             /\ UNCHANGED <<holder, revoked>>
             /\ Goto(n, "sleep")
    /\ closeFailed' = [closeFailed EXCEPT ![n] = IF holder' = n THEN FALSE ELSE @]
    /\ UNCHANGED <<ingestVars, subVars, haltMon, lockVars, restVars, retMon, readyCloses, owed, exitLog, candidate, isPrimary, primaryInfo, streamTerm, primaryCh, closedChs, readyCh,
                   demoteSig, demoted, info, ctxDone, pctx>>

\* acquireLeaseOrPrimaryInfo: the PrimaryInfo fetch after losing the race.
AcquirePrimaryInfo2(n) ==
    /\ pc[n] = "primaryInfo2"
    /\ \E r \in LeaserPrimaryInfo :
          /\ info' = [info EXCEPT ![n] = r.node]
          /\ Goto(n, IF r.err = "nil" THEN "rEnter" ELSE "sleep")
    /\ UNCHANGED <<ingestVars, subVars, monVars, lockVars, restVars, revoked, candidate, isPrimary, primaryInfo, streamTerm, primaryCh, closedChs, readyCh,
                   demoteSig, demoted, ctxDone, holder, pctx>>

\* sleepWithContext(ctx, ReconnectDelay) after a failed acquire-or-discover.
Sleep(n) ==
    /\ pc[n] = "sleep"
    /\ Goto(n, "loop")
    /\ UNCHANGED <<ingestVars, subVars, monVars, lockVars, restVars, revoked, candidate, isPrimary, primaryInfo, streamTerm, primaryCh, closedChs, readyCh,
                   demoteSig, demoted, info, ctxDone, holder, pctx>>

\* ------------------------------------------ Store.monitorLeaseAsPrimary
\* Lock; setIsPrimary(true); demoteCh := s.demoteCh; unlock.
PrimaryEnter(n) ==
    /\ pc[n] = "pEnter"
    /\ SetIsPrimary(n, TRUE)
    /\ demoteSig' = [demoteSig EXCEPT ![n] = FALSE]
    /\ demoted' = [demoted EXCEPT ![n] = FALSE]
    /\ Goto(n, "pReady")
    /\ TrackCtx
    /\ UNCHANGED <<ingestVars, subVars, monVars, lockVars, restVars, revoked, candidate, primaryInfo, streamTerm, readyCh, info, ctxDone, holder>>

PrimaryReady(n) ==
    /\ pc[n] = "pReady"
    /\ MarkReady(n)
    /\ Goto(n, "pWait")
    /\ UNCHANGED <<ingestVars, subVars, haltMon, lockVars, restVars, retMon, owed, exitLog, closeFailed, revoked, candidate, isPrimary, primaryInfo, streamTerm, primaryCh, closedChs,
                   demoteSig, demoted, info, ctxDone, holder, pctx>>

\* Mutant: a failed renewal never ends primary mode.
PrimaryRenewForever(n) ==
    /\ pc[n] = "pWait"
    /\ \E r \in LeaseRenew(n) : Goto(n, "pWait")
    /\ UNCHANGED <<ingestVars, subVars, monVars, lockVars, restVars, revoked, candidate, isPrimary, primaryInfo, streamTerm, primaryCh, closedChs, readyCh,
                   demoteSig, demoted, info, ctxDone, holder, pctx>>

\* The timer case of the select: lease.Renew. A renewal error other than
\* ErrLeaseExpired leaves primary mode only if the next renewal would exceed the TTL.
PrimaryRenew(n) ==
    /\ pc[n] = "pWait"
    /\ \E r \in LeaseRenew(n), exceedsTTL \in BOOLEAN :
          Goto(n, CASE r = "nil" -> "pWait"
                    [] r = "ErrLeaseExpired" -> "pUnset"
                    [] OTHER -> IF exceedsTTL THEN "pUnset" ELSE "pWait")
    /\ UNCHANGED <<ingestVars, subVars, monVars, lockVars, restVars, revoked, candidate, isPrimary, primaryInfo, streamTerm, primaryCh, closedChs, readyCh,
                   demoteSig, demoted, info, ctxDone, holder, pctx>>

\* The demoteCh case of the select.
PrimaryDemoted(n) ==
    /\ pc[n] = "pWait"
    /\ demoteSig[n]
    /\ demoted' = [demoted EXCEPT ![n] = TRUE]
    /\ Goto(n, "pUnset")
    /\ UNCHANGED <<ingestVars, subVars, monVars, lockVars, restVars, revoked, candidate, isPrimary, primaryInfo, streamTerm, primaryCh, closedChs, readyCh,
                   demoteSig, info, ctxDone, holder, pctx>>

\* The ctx.Done() case of the select.
PrimaryCtxDone(n) ==
    /\ pc[n] = "pWait"
    /\ ctxDone[n]
    /\ Goto(n, "pUnset")
    /\ UNCHANGED <<ingestVars, subVars, monVars, lockVars, restVars, revoked, candidate, isPrimary, primaryInfo, streamTerm, primaryCh, closedChs, readyCh,
                   demoteSig, demoted, info, ctxDone, holder, pctx>>

\* Mutant: the deferred setIsPrimary(false) is missing.
PrimaryUnsetMissing(n) ==
    /\ pc[n] = "pUnset"
    /\ demoteSig' = [demoteSig EXCEPT ![n] = FALSE]
    /\ Goto(n, "pClose")
    /\ UNCHANGED <<ingestVars, subVars, monVars, lockVars, restVars, revoked, candidate, isPrimary, primaryCh, closedChs, primaryInfo, streamTerm,
                   readyCh, demoted, info, ctxDone, holder, pctx>>

\* The deferred function registered last runs first: setIsPrimary(false).
\* (The captured demoteCh is out of scope from here on.)
PrimaryUnset(n) ==
    /\ pc[n] = "pUnset"
    /\ SetIsPrimary(n, FALSE)
    /\ demoteSig' = [demoteSig EXCEPT ![n] = FALSE]
    /\ Goto(n, "pClose")
    /\ TrackCtx
    /\ exitLog' = [exitLog EXCEPT ![n] = Append(@, "unset")]
    /\ UNCHANGED <<ingestVars, subVars, haltMon, lockVars, restVars, retMon, readyCloses, owed, closeFailed, revoked, candidate, primaryInfo, streamTerm, readyCh, demoted, info, ctxDone, holder>>

\* The deferred function registered first: lease.Close (its error is only logged).
PrimaryClose(n) ==
    /\ pc[n] = "pClose"
    /\ \E h \in LeaseClose(n) : holder' = h
    /\ Goto(n, IF demoted[n] THEN "pDemoteSleep" ELSE "pRecover")
    /\ demoted' = [demoted EXCEPT ![n] = FALSE]
    /\ exitLog' = [exitLog EXCEPT ![n] = Append(@, "close")]
    /\ closeFailed' = [closeFailed EXCEPT ![n] = (holder' = n)]
    /\ UNCHANGED <<ingestVars, subVars, haltMon, lockVars, restVars, retMon, readyCloses, owed, revoked, candidate, isPrimary, primaryInfo, streamTerm, primaryCh, closedChs, readyCh,
                   demoteSig, info, ctxDone, pctx>>

\* sleepWithContext(ctx, DemoteDelay) after a manual demotion.
PrimaryDemoteSleep(n) ==
    /\ pc[n] = "pDemoteSleep"
    /\ Goto(n, "pRecover")
    /\ exitLog' = [exitLog EXCEPT ![n] = Append(@, "demoteSleep")]
    /\ owed' = [owed EXCEPT ![n] = FALSE]
    /\ UNCHANGED <<ingestVars, subVars, haltMon, lockVars, restVars, retMon, readyCloses, closeFailed, revoked, candidate, isPrimary, primaryInfo, streamTerm, primaryCh, closedChs, readyCh,
                   demoteSig, demoted, info, ctxDone, holder, pctx>>

\* Store.Recover over the databases ds, of which those in failing return an
\* error from DB.Recover: the databases DB.Recover is called on. The loop visits
\* the databases in map order and returns at the first error.
RecoverCalls(ds, failing) ==
    IF failing = {}
       THEN {ds}
       ELSE {S \in SUBSET ds : Cardinality(S \cap failing) = 1}

\* What the exit log records for a Store.Recover call.
RecoverLog(ds, S) == IF S = ds THEN "recover" ELSE "recoverPartial"

\* The outcomes of Store.Recover over any databases of which any may fail.
RecoverOutcomes ==
    {RecoverLog(x[1], x[3]) :
        x \in {y \in (SUBSET DBNames) \X (SUBSET DBNames) \X (SUBSET DBNames) :
                  y[2] \subseteq y[1] /\ y[3] \in RecoverCalls(y[1], y[2])}}

\* Mutant: Recover is not called after primary mode.
PrimaryRecoverMissing(n) ==
    /\ pc[n] = "pRecover"
    /\ Goto(n, "loop")
    /\ UNCHANGED <<ingestVars, subVars, monVars, lockVars, restVars, revoked, candidate, isPrimary, primaryInfo, streamTerm, primaryCh, closedChs, readyCh,
                   demoteSig, demoted, info, ctxDone, holder, pctx>>

\* s.Recover(ctx) after primary mode (its error is only logged), then continue.
PrimaryRecover(n) ==
    /\ pc[n] = "pRecover"
    /\ Goto(n, "loop")
    /\ \E r \in RecoverOutcomes : exitLog' = [exitLog EXCEPT ![n] = Append(@, r)]
    /\ UNCHANGED <<ingestVars, subVars, haltMon, lockVars, restVars, retMon, readyCloses, owed, closeFailed, revoked, candidate, isPrimary, primaryInfo, streamTerm, primaryCh, closedChs, readyCh,
                   demoteSig, demoted, info, ctxDone, holder, pctx>>

\* ------------------------------------------ Store.monitorLeaseAsReplica
\* Lock; s.primaryInfo = info; unlock. (The local info is not read again.)
ReplicaEnter(n) ==
    /\ pc[n] = "rEnter"
    /\ primaryInfo' = [primaryInfo EXCEPT ![n] = info[n]]
    /\ info' = [info EXCEPT ![n] = NoNode]
    /\ Goto(n, "rConnect")
    /\ UNCHANGED <<ingestVars, subVars, monVars, lockVars, restVars, revoked, candidate, isPrimary, streamTerm, primaryCh, closedChs, readyCh,
                   demoteSig, demoted, ctxDone, holder, pctx>>

\* s.PosMap(); s.Client.Stream(...): connected, or an error. The stream is
\* served under the primaryCh the primary has at that moment.
ReplicaConnect(n) ==
    /\ pc[n] = "rConnect"
    /\ \E ok \in BOOLEAN :
          /\ Goto(n, IF ok THEN "rStream" ELSE "rClear")
          /\ streamTerm' = [streamTerm EXCEPT ![n] =
                               IF ok THEN primaryCh[primaryInfo[n]] ELSE 0]
    /\ UNCHANGED <<ingestVars, subVars, monVars, lockVars, restVars, revoked, candidate, isPrimary, primaryInfo, primaryCh, closedChs, readyCh,
                   demoteSig, demoted, info, ctxDone, holder, pctx>>

\* What one turn of the frame loop can read and how its handler ends.
StreamEvents ==
    {"EOF", "readError", "LTX", "LTXError", "Ready", "End", "DropDB", "DropDBError",
     "unknown"}

\* One turn of the frame loop that reads ev (the LTX and DropDB handlers are in
\* IngestSpec).
ReplicaFrameEv(n, ev) ==
    /\ pc[n] = "rStream"
    /\ IF ev = "Ready" THEN MarkReady(n) ELSE UNCHANGED <<readyCh, readyCloses>>
    /\ Goto(n, IF ev \in {"LTX", "Ready", "DropDB"} THEN "rStream" ELSE "rClear")
    /\ UNCHANGED <<ingestVars, subVars, haltMon, lockVars, restVars, retMon, owed, exitLog, closeFailed, revoked, candidate, isPrimary, primaryInfo, streamTerm, primaryCh, closedChs,
                   demoteSig, demoted, info, ctxDone, holder, pctx>>

ReplicaFrame(n) == \E ev \in StreamEvents : ReplicaFrameEv(n, ev)

\* Mutant: the deferred s.primaryInfo = nil is missing.
ReplicaClearMissing(n) ==
    /\ pc[n] = "rClear"
    /\ Goto(n, "rRecover")
    /\ UNCHANGED <<ingestVars, subVars, monVars, lockVars, restVars, revoked, candidate, isPrimary, primaryInfo, streamTerm, primaryCh, closedChs,
                   readyCh, demoteSig, demoted, info, ctxDone, holder, pctx>>

\* The deferred functions: st.Close(), then s.primaryInfo = nil under the mutex.
ReplicaClear(n) ==
    /\ pc[n] = "rClear"
    /\ primaryInfo' = [primaryInfo EXCEPT ![n] = NoNode]
    /\ streamTerm' = [streamTerm EXCEPT ![n] = 0]
    /\ Goto(n, "rRecover")
    /\ exitLog' = [exitLog EXCEPT ![n] = Append(@, "clear")]
    /\ UNCHANGED <<ingestVars, subVars, haltMon, lockVars, restVars, retMon, readyCloses, owed, closeFailed, revoked, candidate, isPrimary, primaryCh, closedChs, readyCh,
                   demoteSig, demoted, info, ctxDone, holder, pctx>>

\* Mutant: Recover is not called after replica mode.
ReplicaRecoverMissing(n) ==
    /\ pc[n] = "rRecover"
    /\ Goto(n, "rSleep")
    /\ UNCHANGED <<ingestVars, subVars, monVars, lockVars, restVars, revoked, candidate, isPrimary, primaryInfo, streamTerm, primaryCh, closedChs, readyCh,
                   demoteSig, demoted, info, ctxDone, holder, pctx>>

\* s.Recover(ctx) after replica mode (its error is only logged).
ReplicaRecover(n) ==
    /\ pc[n] = "rRecover"
    /\ Goto(n, "rSleep")
    /\ \E r \in RecoverOutcomes : exitLog' = [exitLog EXCEPT ![n] = Append(@, r)]
    /\ UNCHANGED <<ingestVars, subVars, haltMon, lockVars, restVars, retMon, readyCloses, owed, closeFailed, revoked, candidate, isPrimary, primaryInfo, streamTerm, primaryCh, closedChs, readyCh,
                   demoteSig, demoted, info, ctxDone, holder, pctx>>

\* sleepWithContext(ctx, ReconnectDelay) at the end of the loop body.
ReplicaSleep(n) ==
    /\ pc[n] = "rSleep"
    /\ Goto(n, "loop")
    /\ exitLog' = [exitLog EXCEPT ![n] = Append(@, "sleep")]
    /\ UNCHANGED <<ingestVars, subVars, haltMon, lockVars, restVars, retMon, readyCloses, owed, closeFailed, revoked, candidate, isPrimary, primaryInfo, streamTerm, primaryCh, closedChs, readyCh,
                   demoteSig, demoted, info, ctxDone, holder, pctx>>

\* --------------------------------------------------- calls from outside
\* Store.Demote: close(s.demoteCh) and make a new one. The channel the primary
\* monitor captured is the one closed exactly when the monitor is past its capture.
Demote(n) ==
    /\ pc[n] \in {"pReady", "pWait"}
    /\ ~demoteSig[n]
    /\ demoteSig' = [demoteSig EXCEPT ![n] = TRUE]
    /\ owed' = [owed EXCEPT ![n] = TRUE]
    /\ UNCHANGED <<ingestVars, subVars, haltMon, lockVars, restVars, retMon, readyCloses, exitLog, closeFailed, revoked, candidate, pc, isPrimary, primaryInfo, streamTerm, primaryCh, closedChs, readyCh,
                   demoted, info, ctxDone, holder, pctx>>

\* Store.Close: s.cancel(ErrStoreClosed).
Close(n) ==
    /\ ~ctxDone[n]
    /\ ctxDone' = [ctxDone EXCEPT ![n] = TRUE]
    /\ UNCHANGED <<ingestVars, subVars, monVars, lockVars, restVars, revoked, candidate, pc, isPrimary, primaryInfo, streamTerm, primaryCh, closedChs, readyCh,
                   demoteSig, demoted, info, holder, pctx>>

\* A second Store.Close: cancelling a cancelled context does nothing.
CloseAgain(n) ==
    /\ ctxDone[n]
    /\ ctxDone' = [ctxDone EXCEPT ![n] = TRUE]
    /\ UNCHANGED <<ingestVars, subVars, monVars, lockVars, restVars, revoked, candidate, pc, isPrimary, primaryInfo, streamTerm, primaryCh, closedChs, readyCh,
                   demoteSig, demoted, info, holder, pctx>>

\* ------------------------------ Store.monitorHaltLock, monitorRetention
\* monitorHaltLock, the ticker case: EnforceHaltLockExpiration returns nothing.
HaltLockTick(n) ==
    /\ haltMon[n] = "run"
    /\ haltMon' = [haltMon EXCEPT ![n] = "run"]
    /\ UNCHANGED <<leaseVars, ingestVars, subVars, lockVars, restVars, retMon, readyCloses, owed, exitLog,
                   closeFailed>>

\* monitorHaltLock, the ctx.Done() case.
HaltLockDone(n) ==
    /\ haltMon[n] = "run"
    /\ ctxDone[n]
    /\ haltMon' = [haltMon EXCEPT ![n] = "done"]
    /\ UNCHANGED <<leaseVars, ingestVars, subVars, lockVars, restVars, retMon, readyCloses, owed, exitLog,
                   closeFailed>>

\* Mutant: the error of the first failing database is returned.
EnforceRetentionFirstError(dbFails) == IF dbFails THEN "error" ELSE "nil"

\* Store.EnforceRetention: the error of a database is kept in a local and nil is
\* returned whether a database failed or not.
EnforceRetention(dbFails) == "nil"

\* monitorRetention, the ticker case: the loop returns the error of
\* EnforceRetention if there is one.
RetentionTick(n) ==
    /\ retMon[n] = "run"
    /\ \E dbFails \in BOOLEAN :
          retMon' = [retMon EXCEPT ![n] =
                        IF EnforceRetention(dbFails) = "nil" THEN "run" ELSE "done"]
    /\ UNCHANGED <<leaseVars, ingestVars, subVars, lockVars, restVars, haltMon, readyCloses, owed, exitLog,
                   closeFailed>>

\* monitorRetention, the ctx.Done() case.
RetentionDone(n) ==
    /\ retMon[n] = "run"
    /\ ctxDone[n]
    /\ retMon' = [retMon EXCEPT ![n] = "done"]
    /\ UNCHANGED <<leaseVars, ingestVars, subVars, lockVars, restVars, haltMon, readyCloses, owed, exitLog,
                   closeFailed>>

\* The lease is revoked, or expires, at the Leaser without its holder acting.
LeaseRevoked ==
    /\ holder # NoNode
    /\ holder' = NoNode
    /\ revoked' = [revoked EXCEPT ![holder] = TRUE]
    /\ closeFailed' = [closeFailed EXCEPT ![holder] = FALSE]
    /\ UNCHANGED <<ingestVars, subVars, haltMon, lockVars, restVars, retMon, readyCloses, owed, exitLog, candidate, pc, isPrimary, primaryInfo, streamTerm, primaryCh, closedChs, readyCh,
                   demoteSig, demoted, info, ctxDone, pctx>>

\* --------------------------------------------------------- PrimaryCtx
\* Mutant: Err looks at the Store's current primaryCh, not at the one captured
\* when the context was made.
CtxErrCurrentCh(c) ==
    IF primaryCh[c.node] \in closedChs[c.node] THEN "ErrLeaseExpired"
    ELSE IF c.parentDone THEN "Canceled"
    ELSE "nil"

\* primaryCtx.Err
CtxErr(c) ==
    IF c.ch \in closedChs[c.node] THEN "ErrLeaseExpired"
    ELSE IF c.parentDone THEN "Canceled"
    ELSE "nil"

\* Store.PrimaryCtx(parent) / newPrimaryCtx with a parent that is not yet cancelled.
\* wasPrimary, lost and parentFirst are ghost fields.
PrimaryCtx(n) ==
    /\ ~pctx.made
    /\ pctx' = [made |-> TRUE, node |-> n, ch |-> primaryCh[n], parentDone |-> FALSE,
                done |-> FALSE, wasPrimary |-> isPrimary[n], lost |-> ~isPrimary[n],
                parentFirst |-> FALSE]
    /\ UNCHANGED <<ingestVars, subVars, monVars, lockVars, restVars, revoked, candidate, pc, isPrimary, primaryInfo, streamTerm, primaryCh, closedChs, readyCh,
                   demoteSig, demoted, info, ctxDone, holder>>

\* The parent context is cancelled.
CancelParent ==
    /\ pctx.made
    /\ ~pctx.parentDone
    /\ pctx' = [pctx EXCEPT !.parentDone = TRUE, !.parentFirst = ~pctx.lost]
    /\ UNCHANGED <<ingestVars, subVars, monVars, lockVars, restVars, revoked, candidate, pc, isPrimary, primaryInfo, streamTerm, primaryCh, closedChs, readyCh,
                   demoteSig, demoted, info, ctxDone, holder>>

\* The goroutine of newPrimaryCtx: close(ctx.done) once either channel is closed.
CtxWatch ==
    /\ pctx.made
    /\ ~pctx.done
    /\ pctx.ch \in closedChs[pctx.node] \/ pctx.parentDone
    /\ pctx' = [pctx EXCEPT !.done = TRUE]
    /\ UNCHANGED <<ingestVars, subVars, monVars, lockVars, restVars, revoked, candidate, pc, isPrimary, primaryInfo, streamTerm, primaryCh, closedChs, readyCh,
                   demoteSig, demoted, info, ctxDone, holder>>

MonitorLease(n) ==
    \/ LoopTop(n)
    \/ AcquirePrimaryInfo(n)
    \/ AcquireLease(n)
    \/ AcquirePrimaryInfo2(n)
    \/ Sleep(n)
    \/ PrimaryEnter(n)
    \/ PrimaryReady(n)
    \/ PrimaryRenew(n)
    \/ PrimaryDemoted(n)
    \/ PrimaryCtxDone(n)
    \/ PrimaryUnset(n)
    \/ PrimaryClose(n)
    \/ PrimaryDemoteSleep(n)
    \/ PrimaryRecover(n)
    \/ ReplicaEnter(n)
    \/ ReplicaConnect(n)
    \/ ReplicaFrame(n)
    \/ ReplicaClear(n)
    \/ ReplicaRecover(n)
    \/ ReplicaSleep(n)

Next ==
    \/ \E n \in Nodes : MonitorLease(n)
    \/ \E n \in Nodes : Demote(n)
    \/ \E n \in Nodes : Close(n)
    \/ LeaseRevoked

Spec == Init /\ [][Next]_vars

\* The HALT-lock and retention monitors Open starts beside the lease monitor.
Background(n) ==
    \/ HaltLockTick(n)
    \/ HaltLockDone(n)
    \/ RetentionTick(n)
    \/ RetentionDone(n)

\* Store.Close on node 1 against the running monitors: the store's three loops,
\* the other node's lease monitor and the Leaser.
CloseNext ==
    \/ \E n \in Nodes : MonitorLease(n)
    \/ Demote(1)
    \/ LeaseRevoked
    \/ Close(1)
    \/ CloseAgain(1)
    \/ Background(1)

\* A step of node n's lease monitor that leaves its position, once the root
\* context is cancelled: the ctx.Done() case of the select in primary mode, the
\* stream of a cancelled context ending, a call or a sleepWithContext returning.
MonitorLeaseAfterCancel(n) ==
    /\ ctxDone[n]
    /\ MonitorLease(n)
    /\ pc'[n] # pc[n]

\* The goroutines are scheduled, and a select whose ctx.Done() case is ready
\* does not pass it over for ever.
CloseSpec ==
    /\ Init
    /\ [][CloseNext]_vars
    /\ WF_vars(MonitorLeaseAfterCancel(1))
    /\ WF_vars(HaltLockDone(1))
    /\ WF_vars(RetentionDone(1))

\* The lease monitors together with one PrimaryCtx made on node 1.
CtxNext ==
    \/ \E n \in Nodes : MonitorLease(n)
    \/ Demote(1)
    \/ Close(1)
    \/ LeaseRevoked
    \/ PrimaryCtx(1)
    \/ CancelParent
    \/ CtxWatch

CtxSpec == Init /\ [][CtxNext]_vars

\* ---------------------------------------- setIsPrimary and PrimaryCtx alone
\* A call of Store.setIsPrimary(v) with any v, the mutex held for the whole call.
\* A new term is entered only within MaxTerms.
SetIsPrimaryCall(n, v) ==
    /\ (v /\ ~isPrimary[n]) => primaryCh[n] < MaxTerms
    /\ SetIsPrimary(n, v)
    /\ TrackCtx
    /\ UNCHANGED <<ingestVars, subVars, monVars, lockVars, restVars, revoked, candidate, pc, primaryInfo, streamTerm, readyCh,
                   demoteSig, demoted, info, ctxDone, holder>>

TermNext ==
    \/ \E n \in Nodes, v \in BOOLEAN : SetIsPrimaryCall(n, v)
    \/ PrimaryCtx(1)
    \/ CancelParent
    \/ CtxWatch

TermSpec == Init /\ [][TermNext]_vars

\* The goroutine of newPrimaryCtx is scheduled once one of its channels is closed.
TermFairSpec == TermSpec /\ WF_vars(CtxWatch)

\* ------------------------------------------- Store.processLTXStreamFrame
\* hdr.IsSnapshot()
IsSnapshot(hdr) == hdr.IsSnapshot

\* Mutant: no frame is taken for this node's own.
OwnFrameNever(hdr) == FALSE

\* Mutant: every frame is taken for this node's own.
OwnFrameAlways(hdr) == TRUE

\* The frame was created on this node and came back through the primary.
OwnFrame(hdr) == hdr.NodeID = SelfID

\* db.LTXPath(hdr.MinTXID, hdr.MaxTXID): the file's name in the LTX directory.
LTXPath(hdr) == <<hdr.MinTXID, hdr.MaxTXID>>

\* Mutant: the expected position is taken at MinTXID instead of MinTXID - 1.
ExpectedPosOffByOne(hdr) ==
    [TXID |-> hdr.MinTXID, PostApplyChecksum |-> hdr.PreApplyChecksum]

\* expectedPos: the position the database must be at for the file to apply.
ExpectedPos(hdr) ==
    [TXID |-> hdr.MinTXID - 1, PostApplyChecksum |-> hdr.PreApplyChecksum]

\* Mutant: only the TXID of the position is compared, not the checksum.
PositionMismatchTXIDOnly(hdr, p) ==
    ~IsSnapshot(hdr) /\ p.TXID # ExpectedPos(hdr).TXID

\* Mutant: the position is not verified at all.
PositionMismatchNever(hdr, p) == FALSE

\* The pre-apply verification: skipped for a snapshot.
PositionMismatch(hdr, p) ==
    ~IsSnapshot(hdr) /\ p # ExpectedPos(hdr)

\* Mutant: the HALT lock is left as it is.
ClearRemoteHaltMissing(h) == h

\* db.UnsetRemoteHaltLock succeeded: no remote HALT lock is held any more.
ClearRemoteHalt(h) == FALSE

\* Mutant: the duplicate is verified but the rest of its body is not discarded.
ConsumeOwnVerifyOnly(b) == <<"end">>

\* dec.Verify() reads the file, io.Copy(io.Discard, src) reads the body to its end.
ConsumeOwn(b) == <<>>

\* Mutant: the position is not written.
ApplyLTXReset(hdr) == Pos0

\* db.ApplyLTXNoLock: the position after the file is applied.
ApplyLTX(hdr) ==
    [TXID |-> hdr.MaxTXID, PostApplyChecksum |-> hdr.PostApplyChecksum]

\* Mutant: every other file is kept.
RemoveFilesExceptNone(fs, file, stuck) == fs \cup {file}

\* removeFilesExcept(dir, file): what is left when removing the files of stuck fails.
RemoveFilesExcept(fs, file, stuck) == {f \in fs : f = file \/ f \in stuck}

\* Mutant: the temp file is not removed on return.
DeferredRemoveMissing(ts, t) == ts

\* defer os.Remove(tmpPath)
DeferredRemove(ts, t) == ts \ {t}

\* processLTXStreamFrame(frame, src) on frame f, failing at `fault` if it gets
\* there; removing the files of `stuck` fails in removeFilesExcept. The result is
\* the error returned and the new state of the frame's database.
ProcessLTXStreamFrame(f, fault, stuck) ==
    LET d == f.name
        hdr == f.hdr
        path == LTXPath(hdr)
        Ret(e, created, p, fs, ts, h, b) ==
            [err |-> e, dbs |-> IF created THEN dbs \cup {d} ELSE dbs,
             pos |-> p, files |-> fs, tmps |-> ts, halt |-> h, body |-> b]
        afterHeader == Tail(LTXBody)
        h1 == IF halt[d] THEN ClearRemoteHalt(halt[d]) ELSE halt[d]
        ts1 == tmps[d] \cup {path}
        onReturn == DeferredRemove(ts1, path)
        fs1 == files[d] \cup {path}
        ts2 == tmps[d]
        cleaned == IF fault = "readdir" THEN fs1 ELSE RemoveFilesExcept(fs1, path, stuck)
        tsCleaned == IF fault = "readdir" THEN ts2 ELSE {}
        fs2 == IF IsSnapshot(hdr) THEN cleaned ELSE fs1
        ts3 == IF IsSnapshot(hdr) THEN tsCleaned ELSE ts2
    IN
    IF d \notin dbs /\ fault = "createdb"
        THEN Ret("create database", FALSE, pos[d], files[d], tmps[d], halt[d], LTXBody)
    ELSE IF fault = "decode"
        THEN Ret("peek ltx header", TRUE, pos[d], files[d], tmps[d], halt[d], LTXBody)
    ELSE IF fault = "lock"
        THEN Ret("acquire write lock", TRUE, pos[d], files[d], tmps[d], halt[d], afterHeader)
    ELSE IF OwnFrame(hdr)
        THEN IF fault = "verify"
                THEN Ret("verify duplicate ltx file", TRUE, pos[d], files[d], tmps[d],
                         halt[d], afterHeader)
             ELSE IF fault = "discard"
                THEN Ret("discard ltx body", TRUE, pos[d], files[d], tmps[d], halt[d],
                         <<"end">>)
             ELSE Ret("nil", TRUE, pos[d], files[d], tmps[d], halt[d],
                      ConsumeOwn(afterHeader))
    ELSE IF halt[d] /\ fault = "unset"
        THEN Ret("release remote halt lock", TRUE, pos[d], files[d], tmps[d], halt[d],
                 afterHeader)
    ELSE IF PositionMismatch(hdr, pos[d])
        THEN Ret("position mismatch", TRUE, pos[d], files[d], tmps[d], h1, afterHeader)
    ELSE IF fault = "create"
        THEN Ret("cannot create temp ltx file", TRUE, pos[d], files[d],
                 DeferredRemove(tmps[d], path), h1, afterHeader)
    ELSE IF fault = "copy"
        THEN Ret("write ltx file", TRUE, pos[d], files[d], onReturn, h1, <<"end">>)
    ELSE IF fault = "fsync"
        THEN Ret("fsync ltx file", TRUE, pos[d], files[d], onReturn, h1, <<>>)
    ELSE IF fault = "rename"
        THEN Ret("rename ltx file", TRUE, pos[d], files[d], onReturn, h1, <<>>)
    ELSE IF fault = "syncdir"
        THEN Ret("sync ltx dir", TRUE, pos[d], fs1, ts2, h1, <<>>)
    ELSE IF IsSnapshot(hdr) /\ (fault = "readdir" \/ fault = "remove")
        THEN Ret("remove ltx after snapshot", TRUE, pos[d], fs2, ts3, h1, <<>>)
    ELSE IF fault = "apply"
        THEN Ret("apply ltx", TRUE, pos[d], fs2, ts3, h1, <<>>)
    ELSE Ret("nil", TRUE, ApplyLTX(hdr), fs2, ts3, h1, <<>>)

\* The LTX frames a primary can send.
LTXFrames == [name : DBNames, hdr : Headers]

\* The position a file leaves the database at: (MaxTXID, PostApplyChecksum).
HdrPos(hdr) == [TXID |-> hdr.MaxTXID, PostApplyChecksum |-> hdr.PostApplyChecksum]

\* Ghost: the header of f fits the position of its database: MinTXID = pos.TXID + 1 and
\* PreApplyChecksum = pos.PostApplyChecksum.
Fits(f) ==
    /\ f.hdr.MinTXID = pos[f.name].TXID + 1
    /\ f.hdr.PreApplyChecksum = pos[f.name].PostApplyChecksum

\* Ghost: whether frame f, fed without a fault, continues the valid chain of its
\* database: its MinTXID is the previous MaxTXID + 1 and its PreApplyChecksum the
\* previous PostApplyChecksum (the empty database counts as position zero).
ContinuesChain(f, fault) ==
    LET prev == IF chain[f.name] = <<>> THEN Pos0
                ELSE chain[f.name][Len(chain[f.name])]
    IN /\ chainValid[f.name]
       /\ fault = "none"
       /\ f.hdr.MinTXID = prev.TXID + 1
       /\ f.hdr.PreApplyChecksum = prev.PostApplyChecksum

\* Ghost: the chain bookkeeping of an LTX frame. A frame of this node's own is
\* no file of the ingested sequence.
TrackChain(f, fault) ==
    LET d == f.name IN
    IF OwnFrame(f.hdr) THEN UNCHANGED <<chain, posLog, chainValid>>
    ELSE IF ContinuesChain(f, fault)
        THEN /\ chain' = [chain EXCEPT ![d] = Append(@, HdrPos(f.hdr))]
             /\ posLog' = [posLog EXCEPT ![d] = Append(@, pos'[d])]
             /\ chainValid' = chainValid
        ELSE /\ chain' = [chain EXCEPT ![d] = <<>>]
             /\ posLog' = [posLog EXCEPT ![d] = <<>>]
             /\ chainValid' = [chainValid EXCEPT ![d] = FALSE]

\* ------------------------------ the frame loop of monitorLeaseAsReplica
\* s.Client.Stream(...) succeeded: the replica reads from the start of a stream.
Connect ==
    /\ session = "closed"
    /\ session' = "open"
    /\ body' = <<>>
    /\ UNCHANGED <<dbs, pos, files, tmps, halt, nFrames, last, chain, posLog, chainValid>>
    /\ UNCHANGED <<leaseVars, subVars, monVars, lockVars, restVars>>

\* ReadStreamFrame returned an LTX frame: processLTXStreamFrame. An error ends the
\* session (the deferred st.Close()).
IngestLTX(f, fault, stuck) ==
    /\ session = "open"
    /\ body = <<>>
    /\ nFrames < MaxFrames
    /\ LET r == ProcessLTXStreamFrame(f, fault, stuck)
           d == f.name
       IN /\ dbs' = r.dbs
          /\ pos' = [pos EXCEPT ![d] = r.pos]
          /\ files' = [files EXCEPT ![d] = r.files]
          /\ tmps' = [tmps EXCEPT ![d] = r.tmps]
          /\ halt' = [halt EXCEPT ![d] = r.halt]
          /\ session' = IF r.err = "nil" THEN "open" ELSE "closed"
          /\ body' = IF r.err = "nil" THEN r.body ELSE <<>>
          /\ last' = [op |-> "ltx", name |-> d, err |-> r.err,
                      own |-> (f.hdr.NodeID = SelfID), snapshot |-> f.hdr.IsSnapshot,
                      fits |-> Fits(f), clean |-> (fault = "none"), before |-> pos[d],
                      halted |-> halt[d],
                      applied |-> IF r.err = "nil" /\ f.hdr.NodeID # SelfID
                                  THEN f.hdr ELSE NoHdr]
    /\ nFrames' = nFrames + 1
    /\ TrackChain(f, fault)
    /\ UNCHANGED <<leaseVars, subVars, monVars, lockVars, restVars>>

\* Mutant: ErrDatabaseNotFound is returned like any other error of DropDB.
IngestDropDBNotFoundFatal(d, removeFails) ==
    /\ session = "open"
    /\ body = <<>>
    /\ nFrames < MaxFrames
    /\ nFrames' = nFrames + 1
    /\ body' = body
    /\ IF d \notin dbs \/ removeFails
          THEN /\ last' = [NoLast EXCEPT !.op = "drop", !.name = d,
                                         !.err = "drop database", !.clean = FALSE]
               /\ session' = "closed"
               /\ UNCHANGED <<dbs, pos, files, tmps, halt, chain, posLog, chainValid>>
       ELSE /\ last' = [NoLast EXCEPT !.op = "drop", !.name = d]
            /\ dbs' = dbs \ {d}
            /\ pos' = [pos EXCEPT ![d] = Pos0]
            /\ files' = [files EXCEPT ![d] = {}]
            /\ tmps' = [tmps EXCEPT ![d] = {}]
            /\ halt' = [halt EXCEPT ![d] = FALSE]
            /\ chain' = [chain EXCEPT ![d] = <<>>]
            /\ posLog' = [posLog EXCEPT ![d] = <<>>]
            /\ chainValid' = [chainValid EXCEPT ![d] = TRUE]
            /\ session' = session
    /\ UNCHANGED <<leaseVars, subVars, monVars, lockVars, restVars>>

\* ReadStreamFrame returned a DropDB frame: processDropDBStreamFrame / Store.DropDB.
\* ErrDatabaseNotFound is swallowed; a failing os.RemoveAll ends the session.
IngestDropDB(d, removeFails) ==
    /\ session = "open"
    /\ body = <<>>
    /\ nFrames < MaxFrames
    /\ nFrames' = nFrames + 1
    /\ body' = body
    /\ IF d \notin dbs
          THEN /\ last' = [NoLast EXCEPT !.op = "drop", !.name = d]
               /\ UNCHANGED <<dbs, pos, files, tmps, halt, session, chain, posLog,
                              chainValid>>
       ELSE IF removeFails
          THEN /\ last' = [NoLast EXCEPT !.op = "drop", !.name = d,
                                         !.err = "drop database", !.clean = FALSE]
               /\ session' = "closed"
               /\ UNCHANGED <<dbs, pos, files, tmps, halt, chain, posLog, chainValid>>
       ELSE /\ last' = [NoLast EXCEPT !.op = "drop", !.name = d]
            /\ dbs' = dbs \ {d}
            /\ pos' = [pos EXCEPT ![d] = Pos0]
            /\ files' = [files EXCEPT ![d] = {}]
            /\ tmps' = [tmps EXCEPT ![d] = {}]
            /\ halt' = [halt EXCEPT ![d] = FALSE]
            /\ chain' = [chain EXCEPT ![d] = <<>>]
            /\ posLog' = [posLog EXCEPT ![d] = <<>>]
            /\ chainValid' = [chainValid EXCEPT ![d] = TRUE]
            /\ session' = session
    /\ UNCHANGED <<leaseVars, subVars, monVars, lockVars, restVars>>

\* The stream ends: io.EOF, an End frame, a read error or an unknown frame type.
StreamEnd ==
    /\ session = "open"
    /\ session' = "closed"
    /\ body' = <<>>
    /\ UNCHANGED <<dbs, pos, files, tmps, halt, nFrames, last, chain, posLog, chainValid>>
    /\ UNCHANGED <<leaseVars, subVars, monVars, lockVars, restVars>>

\* The replica is granted the remote HALT lock of a database by the primary.
AcquireRemoteHaltLock(d) ==
    /\ d \in dbs
    /\ ~halt[d]
    /\ halt' = [halt EXCEPT ![d] = TRUE]
    /\ UNCHANGED <<dbs, pos, files, tmps, session, body, nFrames, last, chain, posLog,
                   chainValid>>
    /\ UNCHANGED <<leaseVars, subVars, monVars, lockVars, restVars>>

\* The places where the call on frame f can fail in the current state: those its
\* control flow passes through.
FaultsOf(f) ==
    LET own == OwnFrame(f.hdr)
        applied == ~own /\ ~PositionMismatch(f.hdr, pos[f.name])
    IN {"none", "decode", "lock"}
       \cup (IF f.name \notin dbs THEN {"createdb"} ELSE {})
       \cup (IF own THEN {"verify", "discard"} ELSE {})
       \cup (IF ~own /\ halt[f.name] THEN {"unset"} ELSE {})
       \cup (IF applied THEN {"create", "copy", "fsync", "rename", "syncdir", "apply"}
             ELSE {})
       \cup (IF applied /\ IsSnapshot(f.hdr) THEN {"readdir", "remove"} ELSE {})

\* The sets of files whose removal can fail in removeFilesExcept: some of the
\* other files of the directory when the fault is there, none otherwise.
StuckSets(f, fault) ==
    IF fault = "remove" THEN SUBSET (files[f.name] \ {LTXPath(f.hdr)}) \ {{}} ELSE {{}}

IngestNext ==
    \/ Connect
    \/ \E f \in LTXFrames :
          \E fault \in FaultsOf(f) :
             \E stuck \in StuckSets(f, fault) : IngestLTX(f, fault, stuck)
    \/ \E d \in DBNames, removeFails \in BOOLEAN : IngestDropDB(d, removeFails)
    \/ StreamEnd
    \/ \E d \in DBNames : AcquireRemoteHaltLock(d)

\* One replica (node 1) whose lease monitor is in replica mode throughout.
IngestStart == Init /\ candidate = [n \in Nodes |-> FALSE]

IngestSpec == IngestStart /\ [][IngestNext]_vars

\* ------------------------------------------------ Subscriber, MarkDirty
\* Mutant: Subscriber.MarkDirty does not send on the notify channel.
TrySendNever(ch) == ch

\* Mutant: the send does not look at the capacity of the channel.
TrySendUnbounded(ch) == ch + 1

\* select { case s.notifyCh <- struct{}{}: default: }: the value is buffered if
\* there is room and dropped if not.
TrySend(ch) == IF ch < NotifyCap THEN ch + 1 ELSE ch

\* The callers that are inside Store.MarkDirty.
InProgress == {c \in Callers : cpc[c] \in {"loop", "send"}}

\* Ghost: the reader of subscriber s acts.
ReaderActs(s) ==
    phase' = [phase EXCEPT ![s] =
                 IF @ # "calls" THEN @
                 ELSE IF InProgress = {} /\ names[s] # {} THEN "reads" ELSE "mixed"]

\* Store.Subscribe: a new Subscriber with an empty channel and dirty set.
Subscribe(s) ==
    /\ mu = NoCaller
    /\ s \notin subscribers
    /\ subscribers' = subscribers \cup {s}
    /\ notifyCh' = [notifyCh EXCEPT ![s] = 0]
    /\ dirtySet' = [dirtySet EXCEPT ![s] = {}]
    /\ got' = [got EXCEPT ![s] = <<>>]
    /\ names' = [names EXCEPT ![s] = {}]
    /\ phase' = [phase EXCEPT ![s] = "calls"]
    /\ UNCHANGED <<mu, subMu, cpc, cname, todo, cur>>
    /\ UNCHANGED <<leaseVars, ingestVars, monVars, lockVars, restVars>>

\* Store.Unsubscribe / Subscriber.Close. The Store no longer reaches the
\* Subscriber, whose fields are dropped from the state.
Unsubscribe(s) ==
    /\ mu = NoCaller
    /\ s \in subscribers
    /\ subscribers' = subscribers \ {s}
    /\ notifyCh' = [notifyCh EXCEPT ![s] = 0]
    /\ dirtySet' = [dirtySet EXCEPT ![s] = {}]
    /\ got' = [got EXCEPT ![s] = <<>>]
    /\ names' = [names EXCEPT ![s] = {}]
    /\ phase' = [phase EXCEPT ![s] = "calls"]
    /\ UNCHANGED <<mu, subMu, cpc, cname, todo, cur>>
    /\ UNCHANGED <<leaseVars, ingestVars, monVars, lockVars, restVars>>

\* Store.MarkDirty(name): s.mu.Lock(), and markDirty starts to range over the
\* subscribers.
MarkDirtyLock(c, name) ==
    /\ cpc[c] = "idle"
    /\ mu = NoCaller
    /\ mu' = c
    /\ cname' = [cname EXCEPT ![c] = name]
    /\ todo' = [todo EXCEPT ![c] = subscribers]
    /\ cpc' = [cpc EXCEPT ![c] = "loop"]
    /\ names' = [s \in Subs |-> IF s \in subscribers THEN names[s] \cup {name}
                                ELSE names[s]]
    /\ phase' = [s \in Subs |-> IF s \in subscribers /\ phase[s] = "reads"
                                THEN "mixed" ELSE phase[s]]
    /\ UNCHANGED <<subscribers, subMu, notifyCh, dirtySet, cur, got>>
    /\ UNCHANGED <<leaseVars, ingestVars, monVars, lockVars, restVars>>

\* Subscriber.MarkDirty, first half: s.mu.Lock() and the insert into dirtySet.
SubMarkDirty(c, s) ==
    /\ cpc[c] = "loop"
    /\ s \in todo[c]
    /\ subMu[s] = NoCaller
    /\ subMu' = [subMu EXCEPT ![s] = c]
    /\ dirtySet' = [dirtySet EXCEPT ![s] = @ \cup {cname[c]}]
    /\ cur' = [cur EXCEPT ![c] = s]
    /\ cpc' = [cpc EXCEPT ![c] = "send"]
    /\ UNCHANGED <<mu, subscribers, notifyCh, cname, todo, got, names, phase>>
    /\ UNCHANGED <<leaseVars, ingestVars, monVars, lockVars, restVars>>

\* Subscriber.MarkDirty, second half: the non-blocking send and the deferred
\* s.mu.Unlock().
SubSend(c) ==
    /\ cpc[c] = "send"
    /\ notifyCh' = [notifyCh EXCEPT ![cur[c]] = TrySend(@)]
    /\ subMu' = [subMu EXCEPT ![cur[c]] = NoCaller]
    /\ todo' = [todo EXCEPT ![c] = @ \ {cur[c]}]
    /\ cur' = [cur EXCEPT ![c] = NoSub]
    /\ cpc' = [cpc EXCEPT ![c] = "loop"]
    /\ UNCHANGED <<mu, subscribers, dirtySet, cname, got, names, phase>>
    /\ UNCHANGED <<leaseVars, ingestVars, monVars, lockVars, restVars>>

\* Store.MarkDirty: the range loop is over and the deferred s.mu.Unlock() runs.
MarkDirtyUnlock(c) ==
    /\ cpc[c] = "loop"
    /\ todo[c] = {}
    /\ mu' = NoCaller
    /\ cpc' = [cpc EXCEPT ![c] = "done"]
    /\ UNCHANGED <<subscribers, subMu, notifyCh, dirtySet, cname, todo, cur, got,
                   names>>
    /\ phase' = phase
    /\ UNCHANGED <<leaseVars, ingestVars, monVars, lockVars, restVars>>

\* The reader receives from Subscriber.NotifyCh().
Recv(s) ==
    /\ s \in subscribers
    /\ notifyCh[s] > 0
    /\ notifyCh' = [notifyCh EXCEPT ![s] = @ - 1]
    /\ ReaderActs(s)
    /\ UNCHANGED <<mu, subscribers, subMu, dirtySet, cpc, cname, todo, cur, got, names>>
    /\ UNCHANGED <<leaseVars, ingestVars, monVars, lockVars, restVars>>

\* Subscriber.DirtySet: under s.mu, the set is returned and replaced by an empty one.
DirtySet(s) ==
    /\ s \in subscribers
    /\ subMu[s] = NoCaller
    /\ Len(got[s]) < MaxReads
    /\ got' = [got EXCEPT ![s] = Append(@, dirtySet[s])]
    /\ dirtySet' = [dirtySet EXCEPT ![s] = {}]
    /\ ReaderActs(s)
    /\ UNCHANGED <<mu, subscribers, subMu, notifyCh, cpc, cname, todo, cur, names>>
    /\ UNCHANGED <<leaseVars, ingestVars, monVars, lockVars, restVars>>

SubNext ==
    \/ \E s \in Subs : Subscribe(s) \/ Unsubscribe(s) \/ Recv(s) \/ DirtySet(s)
    \/ \E c \in Callers :
          \/ \E name \in DBNames : MarkDirtyLock(c, name)
          \/ \E s \in Subs : SubMarkDirty(c, s)
          \/ SubSend(c)
          \/ MarkDirtyUnlock(c)

\* One Store, its subscribers, their readers and the callers of MarkDirty.
SubSpec == IngestStart /\ [][SubNext]_vars

\* ------------------------------- Store.CreateDB, CreateDBIfNotExists, DropDB
\* Where the creation of a database can fail: os.MkdirAll, the creation of the
\* database file, DB.Open.
CreateFaults == {"none", "mkdir", "file", "open"}

\* Mutant: no subscriber is told.
MarkDirtyNone(name) ==
    UNCHANGED <<dirtySet, notifyCh, names, phase>>

\* Store.markDirty(name) with the store mutex held: Subscriber.MarkDirty on every
\* subscriber (the insert into its dirty set and the non-blocking send).
MarkDirtyAll(name) ==
    /\ dirtySet' = [s \in Subs |-> IF s \in subscribers THEN dirtySet[s] \cup {name}
                                   ELSE dirtySet[s]]
    /\ notifyCh' = [s \in Subs |-> IF s \in subscribers THEN TrySend(notifyCh[s])
                                   ELSE notifyCh[s]]
    /\ names' = [s \in Subs |-> IF s \in subscribers THEN names[s] \cup {name}
                                ELSE names[s]]
    /\ phase' = [s \in Subs |-> IF s \in subscribers /\ phase[s] = "reads"
                                THEN "mixed" ELSE phase[s]]

\* The result of a call, for the ghost "last".
Returned(op, name, err) == [NoLast EXCEPT !.op = op, !.name = name, !.err = err]

\* Store.CreateDB(name).
CreateDB(name, fault) ==
    /\ mu = NoCaller
    /\ IF name \in dbs
          THEN /\ last' = Returned("create", name, "ErrDatabaseExists")
               /\ UNCHANGED <<dbs, dirtySet, notifyCh, names, phase>>
       ELSE IF fault # "none"
          THEN /\ last' = Returned("create", name, fault)
               /\ UNCHANGED <<dbs, dirtySet, notifyCh, names, phase>>
       ELSE /\ last' = Returned("create", name, "nil")
            /\ dbs' = dbs \cup {name}
            /\ MarkDirtyAll(name)
    /\ UNCHANGED <<pos, files, tmps, halt, session, body, nFrames, chain, posLog,
                   chainValid>>
    /\ UNCHANGED <<mu, subscribers, subMu, cpc, cname, todo, cur, got>>
    /\ UNCHANGED <<leaseVars, monVars, lockVars, restVars>>

\* Store.CreateDBIfNotExists(name).
CreateDBIfNotExists(name, fault) ==
    /\ mu = NoCaller
    /\ IF name \in dbs
          THEN /\ last' = Returned("createIfNotExists", name, "nil")
               /\ UNCHANGED <<dbs, dirtySet, notifyCh, names, phase>>
       ELSE IF fault # "none"
          THEN /\ last' = Returned("createIfNotExists", name, fault)
               /\ UNCHANGED <<dbs, dirtySet, notifyCh, names, phase>>
       ELSE /\ last' = Returned("createIfNotExists", name, "nil")
            /\ dbs' = dbs \cup {name}
            /\ MarkDirtyAll(name)
    /\ UNCHANGED <<pos, files, tmps, halt, session, body, nFrames, chain, posLog,
                   chainValid>>
    /\ UNCHANGED <<mu, subscribers, subMu, cpc, cname, todo, cur, got>>
    /\ UNCHANGED <<leaseVars, monVars, lockVars, restVars>>

\* The write lock of the database as Store.DropDB finds it: DropDB takes no lock
\* of the database, only the store mutex.
DropLocked(name) == wlock[name]

\* Store.DropDB(ctx, name). The files of the database are removed with
\* os.RemoveAll; a frame being processed for it keeps its DB object, which is no
\* longer the database of that name.
DropDB(name, removeFails) ==
    /\ mu = NoCaller
    /\ IF name \notin dbs
          THEN /\ last' = Returned("drop", name, "ErrDatabaseNotFound")
               /\ UNCHANGED <<dbs, pos, files, tmps, halt, chain, posLog, chainValid,
                              dirtySet, notifyCh, names, phase, wlock, fcur, mut>>
       ELSE IF removeFails
          THEN /\ last' = Returned("drop", name, "remove db path")
               /\ UNCHANGED <<dbs, pos, files, tmps, halt, chain, posLog, chainValid,
                              dirtySet, notifyCh, names, phase, wlock, fcur, mut>>
       ELSE /\ last' = Returned("drop", name, "nil")
            /\ dbs' = dbs \ {name}
            /\ pos' = [pos EXCEPT ![name] = Pos0]
            /\ files' = [files EXCEPT ![name] = {}]
            /\ tmps' = [tmps EXCEPT ![name] = {}]
            /\ halt' = [halt EXCEPT ![name] = FALSE]
            /\ chain' = [chain EXCEPT ![name] = <<>>]
            /\ posLog' = [posLog EXCEPT ![name] = <<>>]
            /\ chainValid' = [chainValid EXCEPT ![name] = TRUE]
            /\ MarkDirtyAll(name)
            /\ mut' = [op |-> "dropdb", name |-> name, locked |-> DropLocked(name)]
            /\ wlock' = [wlock EXCEPT ![name] = FALSE]
            /\ fcur' = IF fpc # "idle" /\ fcur.name = name
                          THEN [fcur EXCEPT !.stale = TRUE] ELSE fcur
    /\ UNCHANGED <<session, body, nFrames, fpc>>
    /\ UNCHANGED <<mu, subscribers, subMu, cpc, cname, todo, cur, got>>
    /\ UNCHANGED <<leaseVars, monVars, restVars>>

DBNext ==
    \/ \E s \in Subs : Subscribe(s) \/ Unsubscribe(s) \/ Recv(s)
    \/ \E name \in DBNames, fault \in CreateFaults : CreateDB(name, fault)
    \/ \E name \in DBNames, fault \in CreateFaults : CreateDBIfNotExists(name, fault)
    \/ \E name \in DBNames, removeFails \in BOOLEAN : DropDB(name, removeFails)

\* One Store, its database map, and its subscribers, whose readers take the
\* wake-ups.
DBSpec == IngestStart /\ [][DBNext]_vars

\* ------------------ processLTXStreamFrame step by step, with the write lock
\* The deferred functions of processLTXStreamFrame and its return to the frame
\* loop: guardSet.Unlock() releases the lock of the DB object the call holds; an
\* error ends the session.
FrameReturn(err) ==
    /\ wlock' = IF fcur.stale THEN wlock ELSE [wlock EXCEPT ![fcur.name] = FALSE]
    /\ fpc' = "idle"
    /\ fcur' = NoFrame
    /\ session' = IF err = "nil" THEN "open" ELSE "closed"
    /\ last' = [NoLast EXCEPT !.op = "ltx", !.name = fcur.name, !.err = err]

\* The frame's DB object is the database of its name and that one's lock is held.
FrameLocked == ~fcur.stale /\ wlock[fcur.name]

\* The directory of the frame's database is there.
FrameDir == fcur.name \in dbs

\* ReadStreamFrame returned an LTX frame: CreateDBIfNotExists, DecodeHeader and
\* db.AcquireWriteLock, which waits while the lock is held.
FrameBegin(f, fault) ==
    /\ session = "open"
    /\ fpc = "idle"
    /\ nFrames < MaxFrames
    /\ nFrames' = nFrames + 1
    /\ IF f.name \notin dbs /\ fault = "createdb"
          THEN /\ session' = "closed"
               /\ last' = [NoLast EXCEPT !.op = "ltx", !.name = f.name,
                                         !.err = "create database"]
               /\ UNCHANGED <<dbs, wlock, fpc, fcur>>
       ELSE IF fault \in {"decode", "lock"}
          THEN /\ dbs' = dbs \cup {f.name}
               /\ session' = "closed"
               /\ last' = [NoLast EXCEPT !.op = "ltx", !.name = f.name, !.err = fault]
               /\ UNCHANGED <<wlock, fpc, fcur>>
       ELSE /\ ~wlock[f.name]
            /\ dbs' = dbs \cup {f.name}
            /\ wlock' = [wlock EXCEPT ![f.name] = TRUE]
            /\ fpc' = "locked"
            /\ fcur' = [name |-> f.name, hdr |-> f.hdr, stale |-> FALSE]
            /\ UNCHANGED <<session, last>>
    /\ UNCHANGED <<pos, files, tmps, halt, body, chain, posLog, chainValid, mut>>
    /\ UNCHANGED <<leaseVars, subVars, monVars, restVars>>

\* With the lock held: the frame of the node's own is skipped, the remote HALT
\* lock cleared, the position verified and the temp file created.
FrameCheck(fault) ==
    /\ fpc = "locked"
    /\ LET d == fcur.name
           hdr == fcur.hdr
       IN IF OwnFrame(hdr)
             THEN /\ FrameReturn(IF fault \in {"verify", "discard"} THEN fault ELSE "nil")
                  /\ UNCHANGED <<halt, tmps, mut>>
          ELSE IF halt[d] /\ fault = "unset"
             THEN /\ FrameReturn("release remote halt lock")
                  /\ UNCHANGED <<halt, tmps, mut>>
          ELSE /\ halt' = [halt EXCEPT ![d] = IF @ THEN ClearRemoteHalt(@) ELSE @]
               /\ IF PositionMismatch(hdr, pos[d])
                     THEN /\ FrameReturn("position mismatch")
                          /\ UNCHANGED <<tmps, mut>>
                  ELSE IF fault = "create" \/ ~FrameDir
                     THEN /\ FrameReturn("cannot create temp ltx file")
                          /\ UNCHANGED <<tmps, mut>>
                  ELSE /\ tmps' = [tmps EXCEPT ![d] = @ \cup {LTXPath(hdr)}]
                       /\ mut' = [op |-> "temp", name |-> d, locked |-> FrameLocked]
                       /\ fpc' = "temp"
                       /\ UNCHANGED <<wlock, fcur, session, last>>
    /\ UNCHANGED <<dbs, pos, files, body, nFrames, chain, posLog, chainValid>>
    /\ UNCHANGED <<leaseVars, subVars, monVars, restVars>>

\* io.Copy, f.Sync, os.Rename and the sync of the directory.
FrameInstall(fault) ==
    /\ fpc = "temp"
    /\ LET d == fcur.name
           path == LTXPath(fcur.hdr)
       IN IF fault \in {"copy", "fsync", "rename"} \/ ~FrameDir \/ path \notin tmps[d]
             THEN /\ FrameReturn(IF fault \in {"copy", "fsync"} THEN fault ELSE "rename ltx file")
                  /\ tmps' = [tmps EXCEPT ![d] = DeferredRemove(@, path)]
                  /\ mut' = IF path \in tmps[d]
                               THEN [op |-> "untemp", name |-> d, locked |-> FrameLocked]
                               ELSE mut
                  /\ UNCHANGED files
          ELSE /\ files' = [files EXCEPT ![d] = @ \cup {path}]
               /\ tmps' = [tmps EXCEPT ![d] = @ \ {path}]
               /\ mut' = [op |-> "install", name |-> d, locked |-> FrameLocked]
               /\ IF fault = "syncdir"
                     THEN FrameReturn("sync ltx dir")
                     ELSE /\ fpc' = "installed"
                          /\ UNCHANGED <<wlock, fcur, session, last>>
    /\ UNCHANGED <<dbs, pos, halt, body, nFrames, chain, posLog, chainValid>>
    /\ UNCHANGED <<leaseVars, subVars, monVars, restVars>>

\* removeFilesExcept after a snapshot, db.ApplyLTXNoLock, and the return.
FrameApply(fault, stuck) ==
    /\ fpc = "installed"
    /\ LET d == fcur.name
           hdr == fcur.hdr
           path == LTXPath(hdr)
           snap == IsSnapshot(hdr) /\ FrameDir
           cleaned == IF snap /\ fault # "readdir"
                         THEN RemoveFilesExcept(files[d], path, stuck) ELSE files[d]
           cleanFails == snap /\ (fault = "readdir" \/ cleaned # files[d] \cap {path})
           applyFails == fault = "apply" \/ ~FrameDir \/ path \notin files[d]
       IN /\ files' = [files EXCEPT ![d] = cleaned]
          /\ tmps' = [tmps EXCEPT ![d] = IF snap /\ fault # "readdir" THEN {} ELSE @]
          /\ IF cleanFails
                THEN /\ FrameReturn("remove ltx after snapshot")
                     /\ mut' = IF cleaned # files[d]
                                  THEN [op |-> "remove", name |-> d, locked |-> FrameLocked]
                                  ELSE mut
                     /\ UNCHANGED pos
             ELSE IF applyFails
                THEN /\ FrameReturn("apply ltx")
                     /\ mut' = IF cleaned # files[d]
                                  THEN [op |-> "remove", name |-> d, locked |-> FrameLocked]
                                  ELSE mut
                     /\ UNCHANGED pos
             ELSE /\ FrameReturn("nil")
                  /\ pos' = [pos EXCEPT ![d] = ApplyLTX(hdr)]
                  /\ mut' = [op |-> "apply", name |-> d, locked |-> FrameLocked]
    /\ UNCHANGED <<dbs, halt, body, nFrames, chain, posLog, chainValid>>
    /\ UNCHANGED <<leaseVars, subVars, monVars, restVars>>

\* The faults of each step, and the files a snapshot's cleanup can fail to remove.
BeginFaults == {"none", "createdb", "decode", "lock"}
CheckFaults == {"none", "verify", "discard", "unset", "create"}
InstallFaults == {"none", "copy", "fsync", "rename", "syncdir"}
ApplyFaults == {"none", "readdir", "remove", "apply"}
StuckFiles(fault) ==
    IF fault = "remove"
       THEN {S \in SUBSET (files[fcur.name] \ {LTXPath(fcur.hdr)}) : S # {}}
       ELSE {{}}

\* The replica's stream goroutine against local CreateDB and DropDB calls.
LockNext ==
    \/ Connect
    \/ \E f \in LTXFrames, fault \in BeginFaults : FrameBegin(f, fault)
    \/ \E fault \in CheckFaults : FrameCheck(fault)
    \/ \E fault \in InstallFaults : FrameInstall(fault)
    \/ \E fault \in ApplyFaults : \E stuck \in StuckFiles(fault) : FrameApply(fault, stuck)
    \/ \E name \in DBNames, fault \in CreateFaults : CreateDB(name, fault)
    \/ \E name \in DBNames, removeFails \in BOOLEAN : DropDB(name, removeFails)

LockSpec == IngestStart /\ [][LockNext]_vars

\* ------------------------------------------------------------ failover
\* Two candidates.
FailoverStart == Init /\ candidate = [n \in Nodes |-> TRUE]

\* The lease of a node in primary mode is revoked at the Leaser, while a node
\* can still enter a primary term within MaxTerms.
RevokePrimary ==
    /\ LeaseRevoked
    /\ isPrimary[holder]
    /\ pc[holder] = "pWait"
    /\ \E n \in Nodes : primaryCh[n] < MaxTerms

\* A lease whose holder has left primary mode without destroying it (lease.Close
\* failed) is not renewed and expires at the Leaser.
ExpireAbandoned ==
    /\ LeaseRevoked
    /\ pc[holder] \notin PrimaryPcs

\* The lease monitor of a store that is neither closed nor demoted.
RunningMonitor(n) ==
    \/ LoopTop(n)
    \/ AcquirePrimaryInfo(n)
    \/ AcquireLease(n)
    \/ AcquirePrimaryInfo2(n)
    \/ Sleep(n)
    \/ PrimaryEnter(n)
    \/ PrimaryReady(n)
    \/ PrimaryRenew(n)
    \/ PrimaryUnset(n)
    \/ PrimaryClose(n)
    \/ PrimaryRecover(n)
    \/ ReplicaEnter(n)
    \/ ReplicaConnect(n)
    \/ ReplicaFrame(n)
    \/ ReplicaClear(n)
    \/ ReplicaRecover(n)
    \/ ReplicaSleep(n)

FailoverNext ==
    \/ \E n \in Nodes : RunningMonitor(n)
    \/ RevokePrimary
    \/ ExpireAbandoned

\* The renewal of a lease that is gone fails and ends primary mode, at the
\* latest when the TTL is exceeded.
RenewFails(n) == revoked[n] /\ PrimaryRenew(n) /\ pc'[n] = "pUnset"

\* The stream a replica reads ends once the primaryCh it was opened under is
\* closed: the primary serves a stream for one primary term.
StreamEnds(n) ==
    /\ primaryInfo[n] # NoNode
    /\ streamTerm[n] \in closedChs[primaryInfo[n]]
    /\ ReplicaFrame(n)
    /\ pc'[n] = "rClear"

\* A call of the Leaser gets an answer from it.
PrimaryInfoAnswers(n) == AcquirePrimaryInfo(n) /\ pc'[n] # "sleep"
AcquireAnswers(n) == AcquireLease(n) /\ pc'[n] # "sleep"
PrimaryInfo2Answers(n) == AcquirePrimaryInfo2(n) /\ pc'[n] # "sleep"

\* The step node n's lease monitor is bound to take: any step outside the select
\* of primary mode and the frame loop, the failing renewal, the end of the stream.
Progress(n) ==
    \/ RunningMonitor(n) /\ pc[n] \notin {"pWait", "rStream"}
    \/ RenewFails(n)
    \/ StreamEnds(n)

\* The goroutines are scheduled, timers fire, and the Leaser is reachable again
\* and again.
FailoverSpec ==
    /\ FailoverStart
    /\ [][FailoverNext]_vars
    /\ WF_vars(ExpireAbandoned)
    /\ \A n \in Nodes :
          /\ WF_vars(Progress(n))
          /\ SF_vars(PrimaryInfoAnswers(n))
          /\ SF_vars(AcquireAnswers(n))
          /\ SF_vars(PrimaryInfo2Answers(n))

\* ------------------------------------------------ Store.EnforceRetention
\* The orders in which s.DBs() can list the databases S: the order of a map's
\* iteration is not fixed.
DBOrders(S) ==
    {o \in [1..Cardinality(S) -> S] : \A i, j \in 1..Cardinality(S) : i # j => o[i] # o[j]}

\* Store.EnforceRetention up to the loop: nothing is done if Retention is not
\* positive; else s.DBs() lists the databases.
EnforceRetentionBegin(order) ==
    /\ er.pc \in {"idle", "done"}
    /\ order \in DBOrders(dbs)
    /\ er' = IF er.retention <= 0
                THEN [ErIdle(er.retention) EXCEPT !.pc = "done", !.ret = "nil"]
                ELSE [ErIdle(er.retention) EXCEPT !.pc = "loop", !.all = dbs,
                                                  !.todo = order]
    /\ UNCHANGED <<leaseVars, ingestVars, subVars, monVars, lockVars, th, rn, lf, cons, rc>>

\* One iteration of the loop: db.EnforceRetention is called and returns e (an
\* error if fails); "err == nil" tests the function's result err, not e, so the
\* first iteration sets err to the wrapping of e, whatever e is.
EnforceRetentionDB(fails) ==
    /\ er.pc = "loop"
    /\ er.todo # <<>>
    /\ er' = [er EXCEPT !.todo = Tail(@),
                        !.called = Append(@, Head(er.todo)),
                        !.failed = IF fails THEN @ \cup {Head(er.todo)} ELSE @,
                        !.err = IF @ = "nil" THEN Head(er.todo) ELSE @]
    /\ UNCHANGED <<leaseVars, ingestVars, subVars, monVars, lockVars, th, rn, lf, cons, rc>>

\* After the loop: "return nil".
EnforceRetentionReturn ==
    /\ er.pc = "loop"
    /\ er.todo = <<>>
    /\ er' = [er EXCEPT !.pc = "done", !.ret = "nil"]
    /\ UNCHANGED <<leaseVars, ingestVars, subVars, monVars, lockVars, th, rn, lf, cons, rc>>

RetentionNext ==
    \/ \E order \in DBOrders(dbs) : EnforceRetentionBegin(order)
    \/ \E fails \in BOOLEAN : EnforceRetentionDB(fails)
    \/ EnforceRetentionReturn
    \/ \E name \in DBNames, fault \in CreateFaults : CreateDB(name, fault)
    \/ \E name \in DBNames, removeFails \in BOOLEAN : DropDB(name, removeFails)

\* One store with any value of Retention.
RetentionStart ==
    /\ StoreInit
    /\ candidate = [n \in Nodes |-> FALSE]
    /\ er \in {ErIdle(r) : r \in Retentions}
    /\ th = [c \in Callers |-> NoThread]
    /\ rn = RnIdle(DefaultTTL)
    /\ lf = NoInstall
    /\ cons = [s \in Subs |-> NoConsumer]
    /\ rc = [p \in Procs |-> NoRun]

\* Calls of Store.EnforceRetention while databases are created and dropped.
RetentionSpec == RetentionStart /\ [][RetentionNext]_vars

\* ------------------------------------------------- the users of Store.mu
\* The operations of the Store that take Store.mu, as the steps each executes in
\* the order of its code; a deferred Unlock is the last step.
StoreOps == {"CreateDB", "CreateDBIfNotExists", "DropDB", "PosMap",
             "EnforceHaltLockExpiration", "monitorLeaseAsPrimary",
             "monitorLeaseAsReplica"}

OpSteps(op) ==
    CASE op = "CreateDB" ->
           <<"Lock", "lookup", "MkdirAll", "OpenFile", "DB.Open", "insert", "markDirty",
             "Unlock">>
      [] op = "CreateDBIfNotExists" ->
           <<"Lock", "lookup", "MkdirAll", "WriteFile", "DB.Open", "insert", "markDirty",
             "Unlock">>
      [] op = "DropDB" ->
           <<"Lock", "lookup", "RemoveAll", "delete", "markDirty", "Unlock">>
      [] op = "PosMap" ->
           <<"Lock", "DB.Pos", "Unlock">>
      [] op = "EnforceHaltLockExpiration" ->
           <<"Lock", "DB.EnforceHaltLockExpiration", "Unlock">>
      [] op = "monitorLeaseAsPrimary" ->
           <<"Lock", "setIsPrimary", "Unlock", "Lease.Renew", "Lock", "setIsPrimary",
             "Unlock", "Lease.Close">>
      [] op = "monitorLeaseAsReplica" ->
           <<"Lock", "setPrimaryInfo", "Unlock", "Lock", "DB.Pos", "Unlock",
             "Client.Stream", "ReadStreamFrame", "Lock", "setPrimaryInfo", "Unlock">>

\* The steps that are file-system I/O, Leaser calls, stream reads, or operations
\* of a DB that touch the disk.
BlockingSteps == {"MkdirAll", "OpenFile", "WriteFile", "RemoveAll", "DB.Open",
                  "Lease.Renew", "Lease.Close", "Client.Stream", "ReadStreamFrame"}

\* The steps after which the operation returns if they fail.
ReturningSteps == {"MkdirAll", "OpenFile", "WriteFile", "RemoveAll", "DB.Open",
                   "Client.Stream"}

\* A caller enters an operation of the Store.
StoreCall(c, op, name) ==
    /\ th[c].steps = <<>>
    /\ th' = [th EXCEPT ![c] = [NoThread EXCEPT !.op = op, !.name = name,
                                                !.steps = OpSteps(op)]]
    /\ UNCHANGED <<leaseVars, ingestVars, subVars, monVars, lockVars, er, rn, lf, cons, rc>>

\* The caller executes its next step. Lock waits for the mutex. The lookup of
\* CreateDB and CreateDBIfNotExists returns if the name is in the map, DropDB's if
\* it is not; a failed step of ReturningSteps returns too. A return runs the
\* deferred Unlock if the mutex is held.
StoreStep(c, fails) ==
    LET t == th[c]
        st == Head(t.steps)
        found == t.name \in dbs
        returns == \/ st = "lookup" /\ (found <=> t.op # "DropDB")
                   \/ fails
    IN  /\ t.steps # <<>>
        /\ fails => st \in ReturningSteps
        /\ st = "Lock" => mu = NoCaller
        /\ mu' = IF st = "Lock" THEN c ELSE IF st = "Unlock" THEN NoCaller ELSE mu
        /\ dbs' = IF st = "insert" THEN dbs \cup {t.name}
                  ELSE IF st = "delete" THEN dbs \ {t.name} ELSE dbs
        /\ IF st = "markDirty" THEN MarkDirtyAll(t.name)
           ELSE UNCHANGED <<dirtySet, notifyCh, names, phase>>
        /\ th' = [th EXCEPT ![c] =
                     [t EXCEPT !.steps = IF ~returns THEN Tail(t.steps)
                                         ELSE IF mu = c THEN <<"Unlock">> ELSE <<>>,
                               !.last = st,
                               !.held = (mu = c)]]
        /\ UNCHANGED <<pos, files, tmps, halt, session, body, nFrames, last, chain,
                       posLog, chainValid>>
        /\ UNCHANGED <<subscribers, subMu, cpc, cname, todo, cur, got>>
        /\ UNCHANGED <<leaseVars, monVars, lockVars, er, rn, lf, cons, rc>>

MutexNext ==
    \/ \E c \in Callers, op \in StoreOps, name \in DBNames : StoreCall(c, op, name)
    \/ \E c \in Callers, fails \in BOOLEAN : StoreStep(c, fails)

\* Callers of one store, concurrently.
MutexSpec == IngestStart /\ [][MutexNext]_vars

\* ----------------------------- monitorLeaseAsPrimary under a clock
\* setIsPrimary(true) and "waitDur := lease.TTL() / 2".
RenewEnter ==
    /\ rn.pc = "enter"
    /\ rn' = [rn EXCEPT !.pc = "wait", !.isPrimary = TRUE, !.waitDur = rn.ttl \div 2]
    /\ UNCHANGED <<leaseVars, ingestVars, subVars, monVars, lockVars, er, th, lf, cons, rc>>

\* The select takes "case <-time.After(waitDur)".
RenewTimer ==
    /\ rn.pc = "wait"
    /\ rn.now + rn.waitDur <= MaxClock
    /\ rn' = [rn EXCEPT !.pc = "renew", !.now = @ + rn.waitDur]
    /\ UNCHANGED <<leaseVars, ingestVars, subVars, monVars, lockVars, er, th, lf, cons, rc>>

\* Mutant: a failed renewal is retried whatever the age of the lease.
RenewCallRetriesForever(outcome, d, stamp) ==
    /\ rn.pc = "renew"
    /\ rn.now + d <= MaxClock
    /\ stamp \in {rn.now, rn.now + d}
    /\ outcome # "nil" => stamp = rn.now
    /\ rn' = [rn EXCEPT !.now = @ + d, !.at = rn.now + d, !.dur = d, !.lastErr = outcome,
                        !.lag = IF outcome = "nil" THEN rn.now + d - stamp ELSE @,
                        !.pc = IF outcome = "ErrLeaseExpired" THEN "exit" ELSE "wait",
                        !.err = IF outcome = "ErrLeaseExpired" THEN outcome ELSE @,
                        !.renewedAt = IF outcome = "nil" THEN stamp ELSE @,
                        !.waitDur = IF outcome = "nil" THEN rn.ttl \div 2 ELSE RenewTimeout]
    /\ UNCHANGED <<leaseVars, ingestVars, subVars, monVars, lockVars, er, th, lf, cons, rc>>

\* lease.Renew(ctx) returns after d seconds. ErrLeaseExpired: return it. Another
\* error: if time.Since(lease.RenewedAt())+timeout > lease.TTL(), sleep and
\* return ErrLeaseExpired, else waitDur = 1s and continue. Success: the lease
\* stamps RenewedAt within the call (at its start or at its end: the Lease is
\* an interface), and waitDur = TTL/2.
RenewCall(outcome, d, stamp) ==
    LET t == rn.now + d
        tooOld == (t - rn.renewedAt) + RenewTimeout > rn.ttl
    IN  /\ rn.pc = "renew"
        /\ t <= MaxClock
        /\ stamp \in {rn.now, t}
        /\ outcome # "nil" => stamp = rn.now
        /\ rn' = [rn EXCEPT !.now = t, !.at = t, !.dur = d, !.lastErr = outcome,
                            !.lag = IF outcome = "nil" THEN t - stamp ELSE @,
                            !.pc = IF outcome = "ErrLeaseExpired" THEN "exit"
                                   ELSE IF outcome = "error" /\ tooOld THEN "sleep"
                                   ELSE "wait",
                            !.err = IF outcome = "ErrLeaseExpired" THEN outcome ELSE @,
                            !.renewedAt = IF outcome = "nil" THEN stamp ELSE @,
                            !.waitDur = IF outcome = "nil" THEN rn.ttl \div 2
                                        ELSE IF outcome = "error" /\ ~tooOld
                                        THEN RenewTimeout ELSE @]
        /\ UNCHANGED <<leaseVars, ingestVars, subVars, monVars, lockVars, er, th, lf, cons, rc>>

\* "time.Sleep(timeout); return ErrLeaseExpired".
RenewSleep ==
    /\ rn.pc = "sleep"
    /\ rn.now + RenewTimeout <= MaxClock
    /\ rn' = [rn EXCEPT !.pc = "exit", !.now = @ + RenewTimeout, !.err = "ErrLeaseExpired"]
    /\ UNCHANGED <<leaseVars, ingestVars, subVars, monVars, lockVars, er, th, lf, cons, rc>>

\* The select takes "case <-demoteCh" or "case <-ctx.Done()": return nil.
RenewStop ==
    /\ rn.pc = "wait"
    /\ rn' = [rn EXCEPT !.pc = "exit", !.err = "nil", !.stopped = TRUE]
    /\ UNCHANGED <<leaseVars, ingestVars, subVars, monVars, lockVars, er, th, lf, cons, rc>>

\* The deferred setIsPrimary(false).
RenewExit ==
    /\ rn.pc = "exit"
    /\ rn' = [rn EXCEPT !.pc = "out", !.isPrimary = FALSE]
    /\ UNCHANGED <<leaseVars, ingestVars, subVars, monVars, lockVars, er, th, lf, cons, rc>>

RenewNext ==
    \/ RenewEnter
    \/ RenewTimer
    \/ \E outcome \in {"nil", "error", "ErrLeaseExpired"}, d \in 0..MaxRenewDur,
          stamp \in 0..MaxClock : RenewCall(outcome, d, stamp)
    \/ RenewSleep
    \/ RenewStop
    \/ RenewExit

\* A lease of any TTL, just acquired.
RenewStart ==
    /\ StoreInit
    /\ candidate = [n \in Nodes |-> TRUE]
    /\ er = ErIdle(DefaultRetention)
    /\ th = [c \in Callers |-> NoThread]
    /\ rn \in {RnIdle(ttl) : ttl \in LeaseTTLs}
    /\ lf = NoInstall
    /\ cons = [s \in Subs |-> NoConsumer]
    /\ rc = [p \in Procs |-> NoRun]

\* One primary term: the renewals of its lease under a clock.
RenewSpec == RenewStart /\ [][RenewNext]_vars

\* ------------------- processLTXStreamFrame: the temp file and the rename
\* The return of processLTXStreamFrame with err: the deferred f.Close() and
\* os.Remove(tmpPath).
LtxReturn(err) ==
    /\ lf' = [lf EXCEPT !.pc = "idle", !.tmp = "none", !.err = err]
    /\ tmps' = [tmps EXCEPT ![lf.name] = DeferredRemove(@, LTXPath(lf.hdr))]

\* processLTXStreamFrame up to "path := db.LTXPath(...)", for a frame of another
\* node that matches the position of the database.
LtxBegin(f) ==
    /\ lf.pc = "idle"
    /\ ~OwnFrame(f.hdr)
    /\ ~PositionMismatch(f.hdr, pos[f.name])
    /\ dbs' = dbs \cup {f.name}
    /\ lf' = [NoInstall EXCEPT !.pc = "create", !.name = f.name, !.hdr = f.hdr]
    /\ UNCHANGED <<pos, files, tmps>>
    /\ UNCHANGED <<halt, session, body, nFrames, last, chain, posLog, chainValid>>
    /\ UNCHANGED <<leaseVars, subVars, monVars, lockVars, er, th, rn, cons, rc>>

\* Mutant: the file is created at the canonical path, not at the temp path.
LtxCreateInPlace(fails) ==
    /\ lf.pc = "create"
    /\ IF fails
          THEN LtxReturn("cannot create temp ltx file") /\ UNCHANGED files
          ELSE /\ files' = [files EXCEPT ![lf.name] = @ \cup {LTXPath(lf.hdr)}]
               /\ lf' = [lf EXCEPT !.pc = "apply", !.part = @ \cup {LTXPath(lf.hdr)}]
               /\ UNCHANGED tmps
    /\ UNCHANGED <<dbs, pos>>
    /\ UNCHANGED <<halt, session, body, nFrames, last, chain, posLog, chainValid>>
    /\ UNCHANGED <<leaseVars, subVars, monVars, lockVars, er, th, rn, cons, rc>>

\* os.Create(tmpPath): the temp file exists, empty.
LtxCreate(fails) ==
    /\ lf.pc = "create"
    /\ IF fails
          THEN LtxReturn("cannot create temp ltx file")
          ELSE /\ tmps' = [tmps EXCEPT ![lf.name] = @ \cup {LTXPath(lf.hdr)}]
               /\ lf' = [lf EXCEPT !.pc = "copy", !.tmp = "part"]
    /\ UNCHANGED <<dbs, pos, files>>
    /\ UNCHANGED <<halt, session, body, nFrames, last, chain, posLog, chainValid>>
    /\ UNCHANGED <<leaseVars, subVars, monVars, lockVars, er, th, rn, cons, rc>>

\* io.Copy(f, src) and f.Sync(): a failed copy leaves the temp file incomplete.
LtxCopy(fault) ==
    /\ lf.pc = "copy"
    /\ IF fault = "copy" THEN LtxReturn("write ltx file")
       ELSE IF fault = "fsync" THEN LtxReturn("fsync ltx file")
       ELSE /\ lf' = [lf EXCEPT !.pc = "rename", !.tmp = "full"]
            /\ UNCHANGED tmps
    /\ UNCHANGED <<dbs, pos, files>>
    /\ UNCHANGED <<halt, session, body, nFrames, last, chain, posLog, chainValid>>
    /\ UNCHANGED <<leaseVars, subVars, monVars, lockVars, er, th, rn, cons, rc>>

\* os.Rename(tmpPath, path) and the sync of the directory: the canonical path
\* holds what the temp file held.
LtxRename(fault) ==
    /\ lf.pc = "rename"
    /\ IF fault = "rename"
          THEN LtxReturn("rename ltx file") /\ UNCHANGED files
          ELSE /\ files' = [files EXCEPT ![lf.name] = @ \cup {LTXPath(lf.hdr)}]
               /\ lf' = [lf EXCEPT !.pc = IF fault = "syncdir" THEN "idle" ELSE "apply",
                                    !.err = IF fault = "syncdir" THEN "sync ltx dir" ELSE @,
                                    !.tmp = "none",
                                    !.part = IF lf.tmp = "full"
                                                THEN @ \ {LTXPath(lf.hdr)}
                                                ELSE @ \cup {LTXPath(lf.hdr)}]
               /\ tmps' = [tmps EXCEPT ![lf.name] = @ \ {LTXPath(lf.hdr)}]
    /\ UNCHANGED <<dbs, pos>>
    /\ UNCHANGED <<halt, session, body, nFrames, last, chain, posLog, chainValid>>
    /\ UNCHANGED <<leaseVars, subVars, monVars, lockVars, er, th, rn, cons, rc>>

\* removeFilesExcept after a snapshot, db.ApplyLTXNoLock, and the return.
LtxApply(fault, stuck) ==
    LET d == lf.name
        path == LTXPath(lf.hdr)
        snap == IsSnapshot(lf.hdr)
        cleaned == IF snap /\ fault # "readdir"
                      THEN RemoveFilesExcept(files[d], path, stuck) ELSE files[d]
        err == IF snap /\ (fault = "readdir" \/ cleaned # {path})
                  THEN "remove ltx after snapshot"
               ELSE IF fault = "apply" THEN "apply ltx" ELSE "nil"
    IN  /\ lf.pc = "apply"
        /\ stuck \subseteq files[d] \ {path}
        /\ stuck # {} => snap /\ fault = "none"
        /\ fault = "readdir" => snap
        /\ files' = [files EXCEPT ![d] = cleaned]
        /\ pos' = IF err = "nil" THEN [pos EXCEPT ![d] = ApplyLTX(lf.hdr)] ELSE pos
        /\ lf' = [lf EXCEPT !.pc = "idle", !.err = err, !.part = @ \cap cleaned]
        /\ tmps' = [tmps EXCEPT ![d] = IF snap /\ fault # "readdir" THEN {} ELSE @]
        /\ UNCHANGED dbs
        /\ UNCHANGED <<halt, session, body, nFrames, last, chain, posLog, chainValid>>
        /\ UNCHANGED <<leaseVars, subVars, monVars, lockVars, er, th, rn, cons, rc>>

InstallNext ==
    \/ \E f \in LTXFrames : LtxBegin(f)
    \/ \E fails \in BOOLEAN : LtxCreate(fails)
    \/ \E fault \in {"none", "copy", "fsync"} : LtxCopy(fault)
    \/ \E fault \in {"none", "rename", "syncdir"} : LtxRename(fault)
    \/ \E fault \in {"none", "readdir", "apply"}, stuck \in SUBSET Ranges :
          LtxApply(fault, stuck)

\* One replica writing the LTX files of the frames it receives.
InstallSpec == IngestStart /\ [][InstallNext]_vars

\* ---------------------- the frame loop: DropDB frames and unknown frames
\* ReadStreamFrame returned a frame of an unknown type: the default case of the
\* switch returns an error, which ends the session.
IngestUnknown ==
    /\ session = "open"
    /\ body = <<>>
    /\ nFrames < MaxFrames
    /\ nFrames' = nFrames + 1
    /\ last' = [NoLast EXCEPT !.op = "unknown", !.err = "invalid stream frame type",
                              !.clean = FALSE]
    /\ session' = "closed"
    /\ UNCHANGED <<dbs, pos, files, tmps, halt, body, chain, posLog, chainValid>>
    /\ UNCHANGED <<leaseVars, subVars, monVars, lockVars, restVars>>

DropNext ==
    \/ Connect
    \/ \E d \in DBNames, removeFails \in BOOLEAN : IngestDropDB(d, removeFails)
    \/ IngestUnknown
    \/ StreamEnd
    \/ \E name \in DBNames, fault \in CreateFaults : CreateDBIfNotExists(name, fault)

\* One replica reading DropDB frames and frames of unknown types, with databases
\* that are created meanwhile.
DropSpec == IngestStart /\ [][DropNext]_vars

\* ------------------------------- a consumer per subscriber: NotifyCh, DirtySet
\* The consumer of subscriber s receives from Subscriber.NotifyCh().
ConsRecv(s) ==
    /\ s \in subscribers
    /\ cons[s].pc = "wait"
    /\ notifyCh[s] > 0
    /\ notifyCh' = [notifyCh EXCEPT ![s] = @ - 1]
    /\ cons' = [cons EXCEPT ![s].pc = "woken"]
    /\ UNCHANGED <<mu, subscribers, subMu, dirtySet, cpc, cname, todo, cur, got, names,
                   phase>>
    /\ UNCHANGED <<leaseVars, ingestVars, monVars, lockVars, er, th, rn, lf, rc>>

\* The consumer, having received, calls Subscriber.DirtySet: under s.mu the set is
\* returned and replaced by an empty one.
ConsDirtySet(s) ==
    /\ s \in subscribers
    /\ cons[s].pc = "woken"
    /\ subMu[s] = NoCaller
    /\ cons' = [cons EXCEPT ![s] = [pc |-> "wait", ret |-> dirtySet[s]]]
    /\ dirtySet' = [dirtySet EXCEPT ![s] = {}]
    /\ UNCHANGED <<mu, subscribers, subMu, notifyCh, cpc, cname, todo, cur, got, names,
                   phase>>
    /\ UNCHANGED <<leaseVars, ingestVars, monVars, lockVars, er, th, rn, lf, rc>>

\* Subscriber.Close / Store.Unsubscribe: the consumer of s ends with its Subscriber.
ConsClose(s) ==
    /\ mu = NoCaller
    /\ s \in subscribers
    /\ subscribers' = subscribers \ {s}
    /\ notifyCh' = [notifyCh EXCEPT ![s] = 0]
    /\ dirtySet' = [dirtySet EXCEPT ![s] = {}]
    /\ got' = [got EXCEPT ![s] = <<>>]
    /\ names' = [names EXCEPT ![s] = {}]
    /\ phase' = [phase EXCEPT ![s] = "calls"]
    /\ cons' = [cons EXCEPT ![s] = NoConsumer]
    /\ UNCHANGED <<mu, subMu, cpc, cname, todo, cur>>
    /\ UNCHANGED <<leaseVars, ingestVars, monVars, lockVars, er, th, rn, lf, rc>>

\* A step of a caller that is inside Store.MarkDirty.
MarkDirtyStep ==
    \E c \in Callers :
        \/ \E s \in Subs : SubMarkDirty(c, s)
        \/ SubSend(c)
        \/ MarkDirtyUnlock(c)

\* A step of the consumer of subscriber s.
ConsStep(s) == ConsRecv(s) \/ ConsDirtySet(s)

WakeNext ==
    \/ \E s \in Subs : Subscribe(s) \/ ConsClose(s) \/ ConsStep(s)
    \/ \E c \in Callers, name \in DBNames : MarkDirtyLock(c, name)
    \/ MarkDirtyStep

WakeSpec == IngestStart /\ [][WakeNext]_vars

\* The goroutines that can run are scheduled: each consumer, and the caller that
\* is inside Store.MarkDirty (no step of it waits on a lock that is held for long).
WakeFairSpec ==
    /\ WakeSpec
    /\ \A s \in Subs : WF_vars(ConsStep(s))
    /\ WF_vars(MarkDirtyStep)

\* ----------------------------------------------------- RunCommand.Run
\* Run returns e from the state r of process p. The deferred f.Close() runs if the
\* lock file was opened; whether closing the file gives up a HALT lock that was
\* not released with Unhalt is decided outside this code (released).
RunReturn(p, r, e, released) ==
    /\ rc' = [rc EXCEPT ![p] =
                 [r EXCEPT !.pc = "ret", !.err = e,
                           !.f = IF r.f = "nil" THEN "nil" ELSE "closed",
                           !.held = r.held /\ ~released]]
    /\ UNCHANGED <<leaseVars, ingestVars, subVars, monVars, lockVars, er, th, rn, lf, cons>>

\* Run is called; WithHaltLockOn is set (lock) or empty.
RunBegin(p, lock) ==
    /\ rc[p].pc = "idle"
    /\ rc' = [rc EXCEPT ![p] = [NoRun EXCEPT !.lock = lock,
                                             !.pc = IF lock THEN "stat" ELSE "exec"]]
    /\ UNCHANGED <<leaseVars, ingestVars, subVars, monVars, lockVars, er, th, rn, lf, cons>>

\* os.Stat(c.WithHaltLockOn): the database exists, does not exist, or another error.
RunStat(p, res) ==
    /\ rc[p].pc = "stat"
    /\ IF res = "ok"
          THEN /\ rc' = [rc EXCEPT ![p].pc = "open"]
               /\ UNCHANGED <<leaseVars, ingestVars, subVars, monVars, lockVars, er, th, rn, lf, cons>>
          ELSE RunReturn(p, rc[p], IF res = "notexist" THEN "database does not exist"
                                                      ELSE "stat", FALSE)

\* os.OpenFile(c.WithHaltLockOn+"-lock"), and on success the defer of f.Close().
RunOpen(p, res) ==
    /\ rc[p].pc = "open"
    /\ IF res = "ok"
          THEN /\ rc' = [rc EXCEPT ![p].pc = "halt", ![p].f = "open"]
               /\ UNCHANGED <<leaseVars, ingestVars, subVars, monVars, lockVars, er, th, rn, lf, cons>>
          ELSE RunReturn(p, rc[p], IF res = "notexist" THEN "lock file not available"
                                                      ELSE "open", FALSE)

\* litefsgo.Halt(f): it returns nil only once no other process holds the HALT lock.
RunHalt(p, res) ==
    /\ rc[p].pc = "halt"
    /\ IF res = "ok"
          THEN /\ \A q \in Procs : ~rc[q].held
               /\ rc' = [rc EXCEPT ![p].pc = "exec", ![p].held = TRUE,
                                   ![p].acquired = TRUE]
               /\ UNCHANGED <<leaseVars, ingestVars, subVars, monVars, lockVars, er, th, rn, lf, cons>>
          ELSE RunReturn(p, rc[p], "halt", FALSE)

\* cmd.Run(), first half: the subcommand is started, or cannot be started.
RunStart(p, res, released) ==
    /\ rc[p].pc = "exec"
    /\ IF res = "ok"
          THEN /\ rc' = [rc EXCEPT ![p].pc = "wait", ![p].cmd = "running"]
               /\ UNCHANGED <<leaseVars, ingestVars, subVars, monVars, lockVars, er, th, rn, lf, cons>>
          ELSE RunReturn(p, rc[p], "cmd", released)

\* cmd.Run(), second half: the subcommand has exited, with status zero or not.
RunWait(p, exit, released) ==
    /\ rc[p].pc = "wait"
    /\ LET r == [rc[p] EXCEPT !.cmd = "exited"] IN
        IF exit = "ok"
           THEN IF r.f # "nil"
                   THEN /\ rc' = [rc EXCEPT ![p] = [r EXCEPT !.pc = "unhalt"]]
                        /\ UNCHANGED <<leaseVars, ingestVars, subVars, monVars, lockVars, er, th, rn, lf, cons>>
                   ELSE RunReturn(p, r, "nil", released)
           ELSE RunReturn(p, r, "cmd", released)

\* litefsgo.Unhalt(f).
RunUnhalt(p, res, released) ==
    /\ rc[p].pc = "unhalt"
    /\ IF res = "ok"
          THEN /\ rc' = [rc EXCEPT ![p].pc = "close", ![p].held = FALSE,
                                   ![p].unhalt = "ok"]
               /\ UNCHANGED <<leaseVars, ingestVars, subVars, monVars, lockVars, er, th, rn, lf, cons>>
          ELSE RunReturn(p, [rc[p] EXCEPT !.unhalt = "failed"], "unhalt", released)

\* f.Close() and the return of its error or of nil.
RunClose(p, res) ==
    /\ rc[p].pc = "close"
    /\ RunReturn(p, rc[p], IF res = "ok" THEN "nil" ELSE "close", FALSE)

\* The results of a call of the operating system or of litefsgo.
CallResults == {"ok", "notexist", "error"}

RunNext ==
    \E p \in Procs :
        \/ \E lock \in BOOLEAN : RunBegin(p, lock)
        \/ \E res \in CallResults : RunStat(p, res) \/ RunOpen(p, res)
        \/ \E res \in {"ok", "error"} :
              \/ RunHalt(p, res)
              \/ RunClose(p, res)
              \/ \E released \in BOOLEAN :
                    \/ RunStart(p, res, released)
                    \/ RunWait(p, res, released)
                    \/ RunUnhalt(p, res, released)

RunSpec == IngestStart /\ [][RunNext]_vars

\* ------------------------------------------------------------- claims
\* C1 (as stated): for candidate nodes sharing one Leaser there is no moment at
\* which two nodes both have isPrimary = TRUE, also when the lease is revoked or
\* expires at the Leaser before its holder's next renewal.
C1_NeverTwoPrimaries ==
    \A a, b \in Nodes :
        (a # b /\ candidate[a] /\ candidate[b]) => ~(isPrimary[a] /\ isPrimary[b])

\* C1 (amended): a node has isPrimary = TRUE only while it holds the Leaser's live
\* lease, or after that lease was revoked or expired at the Leaser and the node has
\* not yet left primary mode; so two nodes are both primary only if the lease of
\* one of them was taken away externally.
C1_PrimaryHoldsLeaseUnlessRevoked ==
    /\ \A n \in Nodes : isPrimary[n] => (holder = n \/ revoked[n])
    /\ \A a, b \in Nodes :
          (a # b /\ isPrimary[a] /\ isPrimary[b]) => (revoked[a] \/ revoked[b])

\* C1 witness: two candidates, the first still marked primary after its lease was
\* revoked, the second primary on the lease it acquired since.
C1_Witness ==
    /\ candidate[1] /\ candidate[2]
    /\ isPrimary[1] /\ revoked[1]
    /\ isPrimary[2] /\ holder = 2

\* C2: on every store, isPrimary = TRUE and primaryInfo # nil never hold together.
C2_PrimaryXorReplica ==
    \A n \in Nodes : ~(isPrimary[n] /\ primaryInfo[n] # NoNode)

\* C2 witness: a node that has been primary before is now a connected replica of
\* the other node, which is primary.
C2_Witness ==
    /\ primaryCh[1] >= 1 /\ ~isPrimary[1] /\ primaryInfo[1] = 2 /\ pc[1] = "rStream"
    /\ isPrimary[2] /\ primaryInfo[2] = NoNode

\* C10 (as stated): for a context made while primary, Err() is nil while the node
\* stays primary and the parent is not cancelled, ErrLeaseExpired once primary
\* status is lost, and parent.Err() if the parent was cancelled first, also after
\* primary status is lost later.
C10_ErrContract ==
    (pctx.made /\ pctx.wasPrimary) =>
        /\ (~pctx.lost /\ ~pctx.parentDone) => CtxErr(pctx) = "nil"
        /\ (pctx.lost /\ ~pctx.parentFirst) => CtxErr(pctx) = "ErrLeaseExpired"
        /\ pctx.parentFirst => CtxErr(pctx) = "Canceled"

\* C26: between calls of setIsPrimary the current primaryCh is open exactly when
\* isPrimary is true (NewStore leaves it closed); a false->true transition installs
\* a channel that was never used and is open, a true->false transition closes the
\* current channel, a step that leaves isPrimary as it was leaves the channel and
\* the closed channels as they were, and no channel is closed twice.
C26_ChannelFollowsFlag ==
    /\ [](\A n \in Nodes :
            /\ isPrimary[n] <=> primaryCh[n] \notin closedChs[n]
            /\ DoubleClose \notin closedChs[n])
    /\ [][\A n \in Nodes :
            /\ (~isPrimary[n] /\ isPrimary'[n]) =>
                   /\ primaryCh'[n] > primaryCh[n]
                   /\ \A ch \in closedChs[n] : primaryCh'[n] > ch
                   /\ closedChs'[n] = closedChs[n]
            /\ (isPrimary[n] /\ ~isPrimary'[n]) =>
                   /\ primaryCh'[n] = primaryCh[n]
                   /\ closedChs'[n] = closedChs[n] \cup {primaryCh[n]}
            /\ (isPrimary'[n] = isPrimary[n]) =>
                   /\ primaryCh'[n] = primaryCh[n]
                   /\ closedChs'[n] = closedChs[n]]_vars

\* A node in its second primary term, the channels of NewStore and of the first
\* term closed, beside a node whose first term has ended.
C26_Witness ==
    /\ isPrimary[1] /\ primaryCh[1] = 2 /\ closedChs[1] = {0, 1}
    /\ ~isPrimary[2] /\ primaryCh[2] = 1 /\ closedChs[2] = {0, 1}

\* C27: a PrimaryCtx belongs to the term it was made in. Once that term has ended
\* Err() is non-nil in every later state, also when the node is primary again, and
\* Done is closed eventually; a context made while the node is not primary has
\* Err() = ErrLeaseExpired from the start; and Err() is non-nil whenever Done is
\* closed.
C27_BoundToTerm ==
    /\ [](pctx.made =>
            /\ pctx.lost => CtxErr(pctx) # "nil"
            /\ ~pctx.wasPrimary => CtxErr(pctx) = "ErrLeaseExpired"
            /\ pctx.done => CtxErr(pctx) # "nil")
    /\ [][pctx.made => (pctx'.made /\ pctx'.ch = pctx.ch /\ (pctx.lost => pctx'.lost))]_vars
    /\ ((pctx.made /\ pctx.lost) ~> pctx.done)

\* The context was made in the first term, the term ended, Done is closed, and the
\* node is primary again under another channel.
C27_Witness ==
    /\ pctx.made /\ pctx.wasPrimary /\ pctx.lost /\ pctx.done /\ ~pctx.parentDone
    /\ isPrimary[pctx.node] /\ primaryCh[pctx.node] # pctx.ch

\* C28: no wake-up is lost. Whenever the dirty set of a subscriber is non-empty
\* (and Subscriber.mu is free), a notification is pending in its notify channel
\* or its consumer has received one and has not called DirtySet() since. Hence a
\* name marked dirty on a subscriber is eventually returned by a DirtySet() of that
\* subscriber, unless the subscriber is closed first.
C28_NoLostWakeUp ==
    /\ [](\A s \in subscribers :
            (subMu[s] = NoCaller /\ dirtySet[s] # {}) =>
                (notifyCh[s] > 0 \/ cons[s].pc = "woken"))
    /\ \A s \in Subs, x \in DBNames :
          /\ (\E c \in InProgress : cname[c] = x /\ s \in todo[c] /\ cur[c] # s)
                ~> (x \in dirtySet[s])
          /\ (x \in dirtySet[s])
                ~> (x \notin dirtySet[s] /\ (x \in cons[s].ret \/ s \notin subscribers))

\* DirtySet() has returned "a" to the consumer of subscriber 1, which waits again
\* while "b" is in the dirty set with a notification pending.
C28_Witness ==
    /\ 1 \in subscribers /\ cons[1] = [pc |-> "wait", ret |-> {"a"}]
    /\ subMu[1] = NoCaller /\ dirtySet[1] = {"b"} /\ notifyCh[1] = 1

\* C29 (as stated): with WithHaltLockOn set, the subcommand is never started
\* unless litefsgo.Halt succeeded, it runs only while the process holds the HALT
\* lock, and when Run has returned after a successful Halt, Unhalt was called and
\* the lock is no longer held, also when the subcommand failed.
C29_UnhaltOnEveryReturn ==
    \A p \in Procs :
        rc[p].lock =>
            /\ rc[p].cmd # "none" => rc[p].acquired
            /\ rc[p].cmd = "running" => rc[p].held
            /\ (rc[p].pc = "ret" /\ rc[p].acquired) =>
                   (rc[p].unhalt # "none" /\ (rc[p].unhalt = "ok" => ~rc[p].held))

\* ------------------------------------------------ claims of the monitors
\* Node n makes a call of the Leaser in this step.
LeaserCall(n) ==
    /\ pc[n] \in {"primaryInfo", "acquire", "primaryInfo2"}
    /\ pc'[n] # pc[n]

\* C11 as stated: after Demote was called in primary mode the node makes no
\* Leaser.PrimaryInfo or Leaser.Acquire call before it has waited DemoteDelay,
\* unless the store is closed.
C11_NoLeaserCallBeforeDelay ==
    [][\A n \in Nodes : (LeaserCall(n) /\ ~ctxDone[n]) => ~owed[n]]_vars

\* The exit log of a node that is back at the top of the loop after primary mode.
PrimaryExitDone(n) ==
    /\ pc[n] = "loop"
    /\ exitLog[n] # <<>>
    /\ exitLog[n][1] \in {"unset", "close"}

\* C12 as stated: every exit from primary mode destroys the lease, then sets
\* isPrimary=false, then calls Recover on every database, before the next
\* acquire-or-discover attempt.
C12_CloseUnsetRecover ==
    \A n \in Nodes :
        PrimaryExitDone(n) =>
            \E i, j, k \in 1..Len(exitLog[n]) :
                /\ i < j /\ j < k
                /\ exitLog[n][i] = "close"
                /\ exitLog[n][j] = "unset"
                /\ exitLog[n][k] = "recover"

\* C12, amended: every exit from primary mode sets isPrimary=false, then destroys
\* the lease, then (after a demotion) waits DemoteDelay, then calls Store.Recover,
\* which reaches every database unless a DB.Recover fails; the node is not
\* primary from the first of these steps to the next acquire-or-discover attempt.
C12_UnsetCloseRecover ==
    \A n \in Nodes :
        /\ PrimaryExitDone(n) =>
              /\ Len(exitLog[n]) \in {3, 4}
              /\ exitLog[n][1] = "unset"
              /\ exitLog[n][2] = "close"
              /\ Len(exitLog[n]) = 4 => exitLog[n][3] = "demoteSleep"
              /\ exitLog[n][Len(exitLog[n])] \in {"recover", "recoverPartial"}
        /\ pc[n] \in {"pClose", "pDemoteSleep", "pRecover", "loop", "primaryInfo"}
              => ~isPrimary[n]

\* A node is back at the top of the loop after a demotion, all steps done.
C12_Witness ==
    \E n \in Nodes :
        /\ PrimaryExitDone(n)
        /\ exitLog[n] = <<"unset", "close", "demoteSleep", "recover">>

\* The exit log of a node that is back at the top of the loop after replica mode.
ReplicaExitDone(n) ==
    /\ pc[n] = "loop"
    /\ exitLog[n] # <<>>
    /\ exitLog[n][1] = "clear"

\* C13 as stated: every exit from replica mode clears primaryInfo, calls Recover
\* on every database and waits ReconnectDelay before the next attempt, and the
\* lease monitor goes on looping.
C13_ClearRecoverSleep ==
    \A n \in Nodes :
        ReplicaExitDone(n) =>
            /\ exitLog[n] = <<"clear", "recover", "sleep">>
            /\ primaryInfo[n] = NoNode

\* C13, amended: every exit from replica mode clears primaryInfo, calls
\* Store.Recover, which reaches every database unless a DB.Recover fails, and
\* waits ReconnectDelay before the next attempt; the monitor is back at the top
\* of its loop and ends only when the store is closed.
C13_ClearRecoverSleepPartial ==
    \A n \in Nodes :
        /\ ReplicaExitDone(n) =>
              /\ Len(exitLog[n]) = 3
              /\ exitLog[n][2] \in {"recover", "recoverPartial"}
              /\ exitLog[n][3] = "sleep"
              /\ primaryInfo[n] = NoNode
        /\ pc[n] \in {"rRecover", "rSleep"} => primaryInfo[n] = NoNode
        /\ pc[n] = "done" => ctxDone[n]

\* A replica is back at the top of the loop after a Recover that stopped early.
C13_Witness ==
    \E n \in Nodes :
        /\ ReplicaExitDone(n)
        /\ exitLog[n] = <<"clear", "recoverPartial", "sleep">>
        /\ ~ctxDone[n]

\* What C15 says of a node that is not a candidate, and of when Acquire is called:
\* such a node is never at Leaser.Acquire, never in primary mode and never has
\* isPrimary; without a primary its PrimaryInfo call is followed by the sleep;
\* Acquire is reached only from a PrimaryInfo call that found no primary.
C15_Candidacy(n) ==
    /\ ~candidate[n] =>
          /\ pc[n] \notin {"acquire", "primaryInfo2"} \cup PrimaryPcs
          /\ pc'[n] \notin {"acquire", "primaryInfo2"} \cup PrimaryPcs
          /\ ~isPrimary[n] /\ ~isPrimary'[n]
          /\ (pc[n] = "primaryInfo" /\ pc'[n] # pc[n] /\ holder = NoNode)
                => pc'[n] = "sleep"
    /\ (pc'[n] = "acquire" /\ pc[n] # "acquire") =>
          /\ pc[n] = "primaryInfo"
          /\ candidate[n]
          /\ holder = NoNode
    /\ (pc'[n] = "primaryInfo2" /\ pc[n] # "primaryInfo2") =>
          /\ pc[n] = "acquire"
          /\ holder # NoNode

\* C15 as stated: the above, and after ErrPrimaryExists the node re-reads the
\* primary info and proceeds as replica.
C15_ExistsThenReplica ==
    [][\A n \in Nodes :
          /\ C15_Candidacy(n)
          /\ (pc[n] = "primaryInfo2" /\ pc'[n] # pc[n]) => pc'[n] = "rEnter"]_vars

\* C15, amended: the above, and after ErrPrimaryExists the node re-reads the
\* primary info and proceeds as replica of the primary the re-read returned; if
\* the re-read returns an error (ErrNoPrimary included) it sleeps and retries.
C15_ExistsThenReplicaOrRetry ==
    [][\A n \in Nodes :
          /\ C15_Candidacy(n)
          /\ (pc[n] = "primaryInfo2" /\ pc'[n] # pc[n]) =>
                \/ pc'[n] = "rEnter" /\ info'[n] = holder /\ holder # NoNode
                \/ pc'[n] = "sleep" /\ info'[n] = NoNode]_vars

\* A candidate lost the race for the lease to the other node and is about to
\* re-read the primary info.
C15_Witness ==
    \E n \in Nodes :
        /\ candidate[n]
        /\ pc[n] = "primaryInfo2"
        /\ holder \notin {NoNode, n}

C20_LoopsEndOnlyOnClose ==
    \A n \in Nodes :
        (pc[n] = "done" \/ haltMon[n] = "done" \/ retMon[n] = "done") => ctxDone[n]

\* After a failed lease.Close and a Store.Recover that stopped at an error, the
\* three loops of an open store are running.
C20_Witness ==
    \E n \in Nodes :
        /\ ~ctxDone[n]
        /\ closeFailed[n]
        /\ pc[n] = "loop"
        /\ exitLog[n] = <<"unset", "close", "recoverPartial">>
        /\ haltMon[n] = "run"
        /\ retMon[n] = "run"

\* s.g.Wait() of Store.Close returns: the three loops of node n have ended.
AllDone(n) == pc[n] = "done" /\ haltMon[n] = "done" /\ retMon[n] = "done"

Quiet == dbs' = dbs /\ dirtySet' = dirtySet /\ notifyCh' = notifyCh

\* The step marks name, and nothing else, dirty on every subscriber, whose
\* channel then holds a wake-up.
Marked(name) ==
    \A s \in Subs :
        IF s \in subscribers
           THEN dirtySet'[s] = dirtySet[s] \cup {name} /\ notifyCh'[s] = NotifyCap
           ELSE dirtySet'[s] = dirtySet[s] /\ notifyCh'[s] = notifyCh[s]

\* C14: CreateDB of a name in the map fails with ErrDatabaseExists and DropDB of
\* a name not in the map with ErrDatabaseNotFound, both leaving the map and the
\* subscribers untouched; CreateDBIfNotExists of a name in the map returns
\* without error and without marking; a successful create or drop adds or
\* removes exactly that name and marks it dirty on every subscriber.
C14_CreateDropContract ==
    [][\A name \in DBNames :
          /\ (\E fault \in CreateFaults : CreateDB(name, fault)) =>
                /\ name \in dbs => last'.err = "ErrDatabaseExists" /\ Quiet
                /\ last'.err = "nil" =>
                      name \notin dbs /\ dbs' = dbs \cup {name} /\ Marked(name)
          /\ (\E fault \in CreateFaults : CreateDBIfNotExists(name, fault)) =>
                /\ name \in dbs => last'.err = "nil" /\ Quiet
                /\ (name \notin dbs /\ last'.err = "nil") =>
                      dbs' = dbs \cup {name} /\ Marked(name)
          /\ (\E removeFails \in BOOLEAN : DropDB(name, removeFails)) =>
                /\ name \notin dbs => last'.err = "ErrDatabaseNotFound" /\ Quiet
                /\ last'.err = "nil" =>
                      name \in dbs /\ dbs' = dbs \ {name} /\ Marked(name)]_vars

\* A database was dropped while two subscribers were registered, one of which
\* had a wake-up pending already.
C14_Witness ==
    /\ last.op = "drop"
    /\ last.err = "nil"
    /\ last.name \notin dbs
    /\ subscribers = Subs
    /\ \A s \in Subs : last.name \in dirtySet[s] /\ notifyCh[s] = NotifyCap
    /\ \E s \in Subs : dirtySet[s] = DBNames

\* -------------------------------------------------- claims of LockSpec
\* C18 as stated: every change of a database's files on disk (the temp file, the
\* installed LTX file, the files removed after a snapshot, the applied file, the
\* directory removed by DropDB) is made while the write lock of that database is
\* held, and the lock processLTXStreamFrame took is released when it has returned.
C18_MutatedUnderWriteLock ==
    /\ mut.locked
    /\ fpc = "idle" => \A d \in DBNames : ~wlock[d]

\* ----------------------------------------------- claims of FailoverSpec
\* Every node has entered as many primary terms as the model follows.
TermsUsedUp == \A n \in Nodes : primaryCh[n] = MaxTerms

\* C19: once the lease of the primary a is revoked, a leaves primary mode
\* (isPrimary false, Recover called), the stream of a replica of a ends, and
\* some node comes to hold the lease with isPrimary true (as long as the model
\* follows primary terms: MaxTerms).
C19_Failover ==
    /\ \A a \in Nodes :
          (isPrimary[a] /\ revoked[a]) ~>
             (/\ ~isPrimary[a]
              /\ pc[a] = "loop"
              /\ exitLog[a] # <<>>
              /\ exitLog[a][Len(exitLog[a])] \in {"recover", "recoverPartial"})
    /\ \A a \in Nodes, b \in Nodes :
          (isPrimary[a] /\ revoked[a] /\ pc[b] = "rStream" /\ primaryInfo[b] = a)
             ~> pc[b] = "rClear"
    /\ (\E a \in Nodes : isPrimary[a] /\ revoked[a])
          ~> \/ \E n \in Nodes : holder = n /\ isPrimary[n]
             \/ TermsUsedUp

\* The failover is complete: the node whose lease was revoked is now a replica
\* of the other node, which holds the lease and is primary.
C19_Witness ==
    \E a \in Nodes, b \in Nodes :
        /\ a # b
        /\ revoked[a]
        /\ ~isPrimary[a]
        /\ pc[a] = "rStream"
        /\ primaryInfo[a] = b
        /\ holder = b
        /\ isPrimary[b]

\* ---------------------------------------------- claims of RetentionSpec
\* The first error of a call of Store.EnforceRetention that has returned: the
\* first database called whose EnforceRetention failed, "nil" if none failed.
FirstError ==
    IF er.failed = {} THEN "nil"
    ELSE er.called[CHOOSE i \in 1..Len(er.called) :
                       /\ er.called[i] \in er.failed
                       /\ \A j \in 1..(i - 1) : er.called[j] \notin er.failed]

\* C21: when Store.EnforceRetention has returned, with Retention <= 0 it has
\* called no database and returned nil; else it has called EnforceRetention on
\* every database, also after a failure, and returned the first error (nil only
\* if every database succeeded).
C21_ReturnsFirstError ==
    er.pc = "done" =>
        IF er.retention <= 0
           THEN er.called = <<>> /\ er.ret = "nil"
           ELSE /\ {er.called[i] : i \in 1..Len(er.called)} = er.all
                /\ Len(er.called) = Cardinality(er.all)
                /\ er.ret = FirstError

\* ------------------------------------------------- claims of MutexSpec
\* C22: no caller holds Store.mu while it performs file-system I/O, a Leaser
\* call, a stream read, or an operation of a DB that touches the disk.
C22_NoBlockingUnderMutex ==
    \A c \in Callers : th[c].last \in BlockingSteps => ~th[c].held

\* -------------------------------------------------- claims of RenewSpec
\* What C23 says of the renewals: after a Renew error other than ErrLeaseExpired
\* that found the lease young enough the node is primary and retries in 1s;
\* after one that found it too old, and after ErrLeaseExpired, the node leaves
\* primary mode with ErrLeaseExpired; after a success the wait is TTL/2.
RenewContract ==
    /\ rn.pc = "wait" /\ rn.lastErr = "error" =>
           /\ rn.isPrimary
           /\ rn.waitDur = RenewTimeout
           /\ (rn.at - rn.renewedAt) + RenewTimeout <= rn.ttl
    /\ rn.pc = "sleep" =>
           rn.lastErr = "error" /\ (rn.at - rn.renewedAt) + RenewTimeout > rn.ttl
    /\ rn.pc \in {"exit", "out"} /\ ~rn.stopped =>
           /\ rn.err = "ErrLeaseExpired"
           /\ \/ rn.lastErr = "ErrLeaseExpired"
              \/ rn.lastErr = "error" /\ (rn.at - rn.renewedAt) + RenewTimeout > rn.ttl
    /\ rn.pc = "wait" /\ rn.lastErr = "nil" => rn.waitDur = rn.ttl \div 2

\* C23 as stated: the renewals are as RenewContract has them, and isPrimary is
\* never true later than lease.RenewedAt() + TTL + 1s.
C23_PrimaryWithinTTLPlusOne ==
    /\ RenewContract
    /\ rn.isPrimary => rn.now <= rn.renewedAt + rn.ttl + RenewTimeout

\* C23 amended: the bound is later by the time the last call of Renew took and
\* by the time that passed between RenewedAt and the return of the successful
\* Renew that stamped it.
C23_PrimaryWithinTTLPlusOnePlusCall ==
    /\ RenewContract
    /\ rn.isPrimary =>
           rn.now <= rn.renewedAt + rn.ttl + RenewTimeout + rn.dur + rn.lag

\* A renewal that took time failed with the lease too old; after the sleep the
\* node is about to leave primary mode with ErrLeaseExpired, still primary later
\* than RenewedAt + TTL + 1s.
C23_Witness ==
    /\ rn.pc = "exit"
    /\ rn.isPrimary
    /\ ~rn.stopped
    /\ rn.lastErr = "error"
    /\ rn.err = "ErrLeaseExpired"
    /\ rn.dur > 0
    /\ rn.now > rn.renewedAt + rn.ttl + RenewTimeout

\* ------------------------------------------------ claims of InstallSpec
\* C24: during and after processLTXStreamFrame, whatever step fails, no
\* canonical LTX path holds an incomplete file, and when the call has returned
\* no temp file of it is left in the LTX directory of its database.
C24_AtomicInstall ==
    /\ lf.part = {}
    /\ lf.pc = "idle" => tmps[lf.name] = {}

\* The copy into the temp file failed and the call has returned: the temp file
\* is gone and the canonical path of the frame holds no file.
C24_Witness ==
    /\ lf.pc = "idle"
    /\ lf.err = "write ltx file"
    /\ LTXPath(lf.hdr) \notin files[lf.name]
    /\ tmps[lf.name] = {}

\* --------------------------------------------------- claims of DropSpec
\* C25 as stated: a DropDB frame naming a database that is not in the map
\* returns no error and leaves the session open; one naming a database of the
\* map removes it from the map; a frame of an unknown type returns an error and
\* ends the session, after which the replica can connect again.
C25_DropFrames ==
    [][/\ \A d \in DBNames :
             (\E removeFails \in BOOLEAN : IngestDropDB(d, removeFails)) =>
                 /\ d \notin dbs => last'.err = "nil" /\ session' = "open" /\ dbs' = dbs
                 /\ d \in dbs => d \notin dbs'
       /\ IngestUnknown =>
             last'.err = "invalid stream frame type" /\ session' = "closed"]_vars

\* C25 amended: a DropDB frame naming a database of the map removes it from the
\* map and the session goes on, unless the removal of its directory fails: then
\* the database stays in the map, the error is returned and the session ends.
C25_DropFramesUnlessRemoveFails ==
    [][/\ \A d \in DBNames :
             (\E removeFails \in BOOLEAN : IngestDropDB(d, removeFails)) =>
                 /\ d \notin dbs => last'.err = "nil" /\ session' = "open" /\ dbs' = dbs
                 /\ d \in dbs =>
                       \/ d \notin dbs' /\ last'.err = "nil" /\ session' = "open"
                       \/ /\ dbs' = dbs
                          /\ last'.err = "drop database"
                          /\ session' = "closed"
       /\ IngestUnknown =>
             last'.err = "invalid stream frame type" /\ session' = "closed"]_vars

\* A DropDB frame named a database of the map whose directory could not be
\* removed: the database is still in the map and the session has ended.
C25_Witness ==
    /\ last.op = "drop"
    /\ last.err = "drop database"
    /\ last.name \in dbs
    /\ session = "closed"

\* ------------------------------------------------- claims of IngestSpec
\* The step is a call of processLTXStreamFrame; last' describes its frame.
LTXCall == nFrames' = nFrames + 1 /\ last'.op = "ltx"

\* The step leaves the files and the position of every database as they were.
Untouched == pos' = pos /\ files' = files /\ tmps' = tmps

\* C3: a non-snapshot LTX file from another node whose header does not fit the
\* database position is rejected: the call returns an error, the position-mismatch
\* error unless an earlier step of the call failed, the position is unchanged, no
\* file is installed and no temp file is left.
C3_MismatchRejected ==
    [][(LTXCall /\ ~last'.snapshot /\ ~last'.own /\ ~last'.fits)
       => /\ last'.err # "nil"
          /\ last'.clean => last'.err = "position mismatch"
          /\ Untouched
          /\ tmps'[last'.name] = {}]_vars

\* A file that fits by TXID but not by checksum was rejected on a database that
\* already holds a file.
C3_Witness ==
    /\ last.op = "ltx"
    /\ last.err = "position mismatch"
    /\ ~last.own
    /\ pos[last.name].TXID = 1
    /\ files[last.name] = {<<1, 1>>}
    /\ tmps[last.name] = {}

\* C4: while the frames of a database form a valid chain from its creation, its
\* successive positions are exactly the files' (MaxTXID, PostApplyChecksum) in
\* stream order and its position is that of the last file, whatever frames of
\* other databases come in between.
C4_ChainPositions ==
    \A d \in DBNames :
        chainValid[d] =>
            /\ posLog[d] = chain[d]
            /\ chain[d] # <<>> => pos[d] = chain[d][Len(chain[d])]

\* A chain of two files on one database with a file of the other database fed
\* between them.
C4_Witness ==
    /\ chainValid["a"] /\ Len(chain["a"]) = 2
    /\ chainValid["b"] /\ Len(chain["b"]) = 1
    /\ last.name = "a"
    /\ pos["a"].TXID = 2

\* C5 as stated: no call of processLTXStreamFrame leaves pos.TXID lower than it was.
C5_NeverLower ==
    [][LTXCall => pos'[last'.name].TXID >= pos[last'.name].TXID]_vars

\* C5: pos.TXID does not decrease over non-snapshot frames, frames of this node
\* and rejected frames; an accepted snapshot of another node sets it to the
\* snapshot's MaxTXID, lower or not.
C5_LowerOnlyBySnapshot ==
    [][LTXCall
       => IF last'.snapshot /\ ~last'.own /\ last'.err = "nil"
             THEN pos'[last'.name].TXID = last'.applied.MaxTXID
             ELSE pos'[last'.name].TXID >= pos[last'.name].TXID]_vars

\* A non-snapshot file was applied and raised the position.
C5_Witness ==
    /\ last.op = "ltx"
    /\ last.err = "nil"
    /\ ~last.snapshot
    /\ ~last.own
    /\ pos[last.name].TXID > last.before.TXID

\* C6: a snapshot from another node is never rejected for the position; when the
\* call succeeds, as it does when no step fails, the snapshot is the only LTX file
\* of the database and its position is (MaxTXID, PostApplyChecksum).
C6_SnapshotReplaces ==
    [][(LTXCall /\ last'.snapshot /\ ~last'.own)
       => /\ last'.err # "position mismatch"
          /\ last'.clean => last'.err = "nil"
          /\ last'.err = "nil" =>
                /\ last'.applied.IsSnapshot
                /\ files'[last'.name] = {LTXPath(last'.applied)}
                /\ pos'[last'.name] = HdrPos(last'.applied)]_vars

\* A snapshot was accepted on a database that was further on, and its file is
\* the only one left.
C6_Witness ==
    /\ last.op = "ltx"
    /\ last.err = "nil"
    /\ last.snapshot
    /\ ~last.own
    /\ last.before.TXID = 2
    /\ pos[last.name].TXID = 1
    /\ files[last.name] = {<<1, 1>>}

\* C7: a frame of this node's own is consumed to the end of its body and not
\* applied: position, installed files and temp files are unchanged, and when the
\* call succeeds, as it does when no step fails, the stream stands at the next frame.
C7_OwnFrameSkipped ==
    [][(LTXCall /\ last'.own)
       => /\ Untouched
          /\ last'.clean => last'.err = "nil"
          /\ last'.err = "nil" => (body' = <<>> /\ session' = "open")]_vars

\* A frame of this node's own, which did not fit the position, went through on
\* a database holding a file, and the stream stands at the next frame.
C7_Witness ==
    /\ last.op = "ltx"
    /\ last.own
    /\ ~last.fits
    /\ last.err = "nil"
    /\ body = <<>>
    /\ session = "open"
    /\ pos[last.name].TXID = 2
    /\ files[last.name] = {<<1, 2>>}

\* C8 as stated: after any LTX frame for a database whose remote HALT lock is
\* held has been processed, the lock is cleared.
C8_AnyFrameClearsHalt ==
    [][(LTXCall /\ halt[last'.name] /\ last'.clean) => ~halt'[last'.name]]_vars

\* C8: a frame of another node clears the held remote HALT lock once the call is
\* past UnsetRemoteHaltLock, rejected for its position or not; a frame of this
\* node's own leaves the lock as it is.
C8_OtherFrameClearsHalt ==
    [][(LTXCall /\ halt[last'.name])
       => IF \/ last'.own
             \/ last'.err \in {"peek ltx header", "acquire write lock",
                               "release remote halt lock"}
             THEN halt'[last'.name]
             ELSE ~halt'[last'.name]]_vars

\* A frame of another node was rejected for its position and cleared the lock.
C8_Witness ==
    /\ last.op = "ltx"
    /\ ~last.own
    /\ last.halted
    /\ last.err = "position mismatch"
    /\ ~halt[last.name]

\* ---------------------------------------------------- claims of SubSpec
\* C9: the notify channel of a registered subscriber never holds more than one
\* wake-up; once N >= 1 calls of MarkDirty have all returned and the reader has
\* not acted yet, it holds exactly one and the dirty set is the set of names
\* marked; the reader's first DirtySet after that returns those names and its
\* second the empty set; and the send of a call in progress can always be taken,
\* whatever the channel holds.
C9_OneWakeUp ==
    /\ \A s \in subscribers :
          /\ notifyCh[s] <= 1
          /\ (phase[s] = "calls" /\ names[s] # {} /\ InProgress = {})
                => (notifyCh[s] = 1 /\ dirtySet[s] = names[s])
          /\ phase[s] = "reads"
                => /\ Len(got[s]) >= 1 => got[s][1] = names[s]
                   /\ Len(got[s]) >= 2 => got[s][2] = {}
    /\ \A c \in Callers : cpc[c] = "send" => ENABLED SubSend(c)

\* All callers marked the same name on subscriber 1, whose reader then called
\* DirtySet twice without receiving the wake-up.
C9_Witness ==
    /\ 1 \in subscribers
    /\ \A c \in Callers : cpc[c] = "done" /\ cname[c] = "a"
    /\ phase[1] = "reads"
    /\ names[1] = {"a"}
    /\ notifyCh[1] = 1
    /\ got[1] = <<{"a"}, {}>>

====
